---- MODULE Spec2Model ----
(***************************************************************************)
(* Living Documentation Collector for GitHub: the consolidation engine     *)
(* (doc_issues/collector.py) and the ConsolidatedIssue merge unit          *)
(* (doc_issues/model/consolidated_issue.py).                               *)
(*                                                                         *)
(* Text is modelled as a sequence of one-character strings, so that the    *)
(* split of a repository id and the building of a composite key are real   *)
(* conversions.  A Python dict is an association list of <<key, value>>    *)
(* pairs in insertion order.  An Optional[object] is a sequence of length  *)
(* 0 (None) or 1.  An Optional[str] is the value None or a string.         *)
(***************************************************************************)
EXTENDS Integers, Sequences, FiniteSets, TLC

VARIABLES
    pc,                   \* position of the run / of the operation under study
    cfg_repositories,     \* ActionInputs.get_repositories(): list of repository ids
    cfg_mining,           \* ActionInputs.is_project_state_mining_enabled()
    remote_issues,        \* the hosting platform: dict repository id -> list of issues
    output_dir,           \* the output directory: "stale", "clean" or "written"
    fetch_index,          \* index of the configured repository a fetch loop is at
    lookup_failed,        \* a repository lookup returned None in some fetch stage
    repository_issues,    \* dict repository id -> list of fetched issues
    project_issues,       \* dict composite key -> list of ProjectIssue
    consolidated_issues,  \* dict composite key -> ConsolidatedIssue
    cursor,               \* a loop's position inside the stage pc names
    sightings,            \* history: the (repository id, issue) pairs consolidated so far
    issues,               \* Issues collection of the persist stage: dict key -> record
    invalid_issue_detected,
    skipped,              \* history: keys the persist stage skipped as invalid
    output_file,          \* content of doc-issues.json: <<>> or <<issues data>>
    result,               \* return value of collect(): "none", TRUE or FALSE
    raised,               \* exception that escaped: "none" or its class name
    remote_calls,         \* history: the remote calls of the fetch stages and their outcomes
    ci,                   \* one ConsolidatedIssue under study (unit specifications)
    calls,                \* history: arguments / operations applied to ci, in order
    comment_requests,     \* history: number of get_comments() requests sent for ci
    timeline_requests,    \* history: number of get_timeline() requests sent for ci
    board,                \* the GitHubProject get_project_issues is called with: <<>> or <<project>>
    responses,            \* the platform's answers to the item queries of that board, in order
    loaded                \* project issues get_project_issues has accumulated

vars == <<pc, cfg_repositories, cfg_mining, remote_issues, output_dir, fetch_index,
          lookup_failed, repository_issues, project_issues, consolidated_issues,
          cursor, sightings, issues, invalid_issue_detected, skipped, output_file,
          result, raised, remote_calls, ci, calls, comment_requests, timeline_requests,
          board, responses, loaded>>

----------------------------------------------------------------------------
(* Bounds of the model *)

MaxSightings == 3     \* repository issues handed to one consolidation
MaxCalls == 4         \* calls applied to one ConsolidatedIssue under study
MaxParsed == 2        \* timeline events handed to _parse_timeline_event in a row
MaxPages == 3         \* answers the platform holds for the item queries of one board

----------------------------------------------------------------------------
(* Constants of the program *)

DOC_USER_STORY_LABEL == "DocumentedUserStory"
DOC_FEATURE_LABEL == "DocumentedFeature"
DOC_FUNCTIONALITY_LABEL == "DocumentedFunctionality"
SUPPORTED_ISSUE_LABELS == <<DOC_USER_STORY_LABEL, DOC_FEATURE_LABEL, DOC_FUNCTIONALITY_LABEL>>

None == "<None>"
MULTIPLE_LABELS == "multiple_labels"
MULTIPLE_LABELS_MESSAGE ==
    "Multiple Living-Doc labels found for the same issue. Please use only one Living-Doc label per issue."

----------------------------------------------------------------------------
(* Python values *)

Range(s) == {s[i] : i \in 1..Len(s)}

\* x in list
In(x, s) == x \in Range(s)

\* truth value of an Optional[str]
Truthy(s) == s # None /\ s # ""

\* dict operations on an association list in insertion order
DictKeys(d) == [i \in 1..Len(d) |-> d[i][1]]
DictHas(d, k) == \E i \in 1..Len(d) : d[i][1] = k
DictGet(d, k) == d[CHOOSE i \in 1..Len(d) : d[i][1] = k][2]
DictPut(d, k, v) ==
    IF DictHas(d, k)
    THEN [i \in 1..Len(d) |-> IF d[i][1] = k THEN <<k, v>> ELSE d[i]]
    ELSE Append(d, <<k, v>>)

\* str(n) for a small non-negative integer
Digit(n) ==
    CASE n = 0 -> "0" [] n = 1 -> "1" [] n = 2 -> "2" [] n = 3 -> "3" [] n = 4 -> "4"
      [] n = 5 -> "5" [] n = 6 -> "6" [] n = 7 -> "7" [] n = 8 -> "8" [] n = 9 -> "9"

RECURSIVE IntToStr(_)
IntToStr(n) == IF n < 10 THEN <<Digit(n)>> ELSE IntToStr(n \div 10) \o <<Digit(n % 10)>>

\* s.split(sep): the parts of s between the occurrences of sep
RECURSIVE SplitFrom(_, _, _, _)
SplitFrom(s, sep, part, parts) ==
    IF s = <<>> THEN Append(parts, part)
    ELSE IF Head(s) = sep THEN SplitFrom(Tail(s), sep, <<>>, Append(parts, part))
    ELSE SplitFrom(Tail(s), sep, Append(part, Head(s)), parts)

Split(s, sep) == SplitFrom(s, sep, <<>>, <<>>)

\* f"{organization_name}/{repository_name}"
RepositoryId(organization_name, repository_name) ==
    organization_name \o <<"/">> \o repository_name

\* Issues.make_issue_key: f"{organization_name}/{repository_name}#{issue_number}"
make_issue_key(organization_name, repository_name, issue_number) ==
    organization_name \o <<"/">> \o repository_name \o <<"#">> \o IntToStr(issue_number)

\* str(x) of an Optional[str]
Str(x) == IF x = None THEN "None" ELSE x

----------------------------------------------------------------------------
(* ConsolidatedIssue (doc_issues/model/consolidated_issue.py) *)

\* ConsolidatedIssue.__init__; repository_issue is <<>> (None) or <<issue>>
ConsolidatedIssue(repository_id, repository_issue) ==
    [ issue |-> repository_issue,
      repository_id |-> repository_id,
      issue_type |-> "Issue",
      linked_to_project |-> FALSE,
      project_issue_statuses |-> <<>>,
      issue_labels |-> <<>>,
      errors |-> <<>>,
      audit_data_fetched |-> FALSE,
      created_by |-> None,
      closed_by |-> None,
      comments_count |-> 0,
      last_commented_at |-> None,
      last_commented_by |-> None,
      audit_events |-> <<>> ]

number(c) == IF c.issue # <<>> THEN c.issue[1].number ELSE 0
title(c) == IF c.issue # <<>> THEN c.issue[1].title ELSE ""
state(c) == IF c.issue # <<>> THEN c.issue[1].state ELSE ""
created_at(c) == IF c.issue # <<>> THEN Str(c.issue[1].created_at) ELSE ""
updated_at(c) == IF c.issue # <<>> THEN Str(c.issue[1].updated_at) ELSE ""
closed_at(c) == IF c.issue # <<>> THEN Str(c.issue[1].closed_at) ELSE ""
html_url(c) == IF c.issue # <<>> THEN c.issue[1].html_url ELSE ""
body(c) == IF c.issue # <<>> THEN c.issue[1].body ELSE ""

\* the labels property: the record after the access (the label cache filled)
labels_cached(c) ==
    IF c.issue_labels # <<>> THEN c
    ELSE IF c.issue # <<>>
    THEN [c EXCEPT !.issue_labels = [i \in 1..Len(c.issue[1].labels) |-> c.issue[1].labels[i]]]
    ELSE c

\* the labels property: the value returned
labels(c) == labels_cached(c).issue_labels

\* the labels property: the access goes through the label collection of the
\* backing issue (the cached list is empty and an issue is attached)
labels_traversed(c) == c.issue_labels = <<>> /\ c.issue # <<>>

\* mutant: the new status is put in front of the list
update_with_project_data_prepend(c, project_issue_status) ==
    [c EXCEPT !.linked_to_project = TRUE,
              !.project_issue_statuses = <<project_issue_status>> \o @]

update_with_project_data(c, project_issue_status) ==
    [c EXCEPT !.linked_to_project = TRUE,
              !.project_issue_statuses = Append(@, project_issue_status)]

\* the audit-relevant kinds of timeline events
relevant_events ==
    {"labeled", "unlabeled", "assigned", "unassigned",
     "milestoned", "demilestoned", "reopened", "closed"}

\* _parse_timeline_event: <<>> (None) or <<event_data>>; event.attrs is the set of
\* attributes the event object has (hasattr)
_parse_timeline_event(event) ==
    LET event_type == IF "event" \in event.attrs THEN event.event ELSE None
        base == << <<"action", event_type>>,
                   <<"timestamp", IF "created_at" \in event.attrs
                                  THEN Str(event.created_at) ELSE None>> >>
        with_actor == IF "actor" \in event.attrs /\ Truthy(event.actor)
                      THEN DictPut(base, "actor", event.actor) ELSE base
    IN  IF ~Truthy(event_type) THEN <<>>
        ELSE IF event_type \notin relevant_events THEN <<>>
        ELSE IF event_type \in {"labeled", "unlabeled"} /\ "label" \in event.attrs
        THEN << DictPut(with_actor, "label", event.label) >>
        ELSE IF event_type \in {"assigned", "unassigned"} /\ "assignee" \in event.attrs
        THEN << DictPut(with_actor, "assignee", event.assignee) >>
        ELSE IF event_type \in {"milestoned", "demilestoned"} /\ "milestone" \in event.attrs
        THEN << DictPut(with_actor, "milestone", event.milestone) >>
        ELSE << with_actor >>

\* the events list _fetch_audit_events has built after the first n timeline events
RECURSIVE ParsedEvents(_, _)
ParsedEvents(timeline, n) ==
    IF n = 0 THEN <<>>
    ELSE ParsedEvents(timeline, n - 1) \o _parse_timeline_event(timeline[n])

\* _fetch_audit_events: the timeline delivers timeline_fail_after events and then
\* raises GithubException (-1: it never raises); the handler returns `events`
_fetch_audit_events(c) ==
    IF c.issue = <<>> THEN <<>>
    ELSE LET i == c.issue[1]
         IN  IF i.timeline_fail_after < 0
             THEN ParsedEvents(i.timeline, Len(i.timeline))
             ELSE ParsedEvents(i.timeline, i.timeline_fail_after)

\* mutant: the comment list is read whatever the comment count is
FetchLastComment_uncounted(c) ==
    LET i == c.issue[1]
    IN  IF i.comments_fail \/ i.comment_list = <<>> THEN c
        ELSE LET last_comment == i.comment_list[Len(i.comment_list)]
             IN  [c EXCEPT !.last_commented_at =
                               IF Truthy(last_comment.created_at)
                               THEN Str(last_comment.created_at) ELSE None,
                           !.last_commented_by = last_comment.user]

\* the comments part of _ensure_audit_data_fetched (lines 211-223)
FetchLastComment(c) ==
    LET i == c.issue[1]
    IN  IF ~(c.comments_count > 0) \/ i.comments_fail \/ i.comment_list = <<>> THEN c
        ELSE LET last_comment == i.comment_list[Len(i.comment_list)]
             IN  [c EXCEPT !.last_commented_at =
                               IF Truthy(last_comment.created_at)
                               THEN Str(last_comment.created_at) ELSE None,
                           !.last_commented_by = last_comment.user]

\* mutant: the fetched flag is never set
_ensure_audit_data_fetched_unflagged(c) ==
    IF c.audit_data_fetched \/ c.issue = <<>> THEN c
    ELSE LET i == c.issue[1]
             c1 == IF Truthy(i.user) THEN [c EXCEPT !.created_by = i.user] ELSE c
             c2 == IF Truthy(i.closed_by) THEN [c1 EXCEPT !.closed_by = i.closed_by] ELSE c1
             c3 == [c2 EXCEPT !.comments_count = i.comments]
             c4 == FetchLastComment(c3)
         IN  CASE i.fail_attr = "user" -> c
               [] i.fail_attr = "closed_by" -> c1
               [] i.fail_attr = "comments" -> c2
               [] OTHER -> [c4 EXCEPT !.audit_events = _fetch_audit_events(c4)]

\* the exception classes the handlers of _ensure_audit_data_fetched and of
\* _fetch_audit_events name (lines 218, 228 and 251)
CaughtClasses == {"GithubException", "AttributeError", "TypeError"}

\* get_comments() is requested and raises an exception no handler names
CommentsRaise(c) ==
    LET i == c.issue[1]
    IN  i.fail_attr = "none" /\ i.comments > 0 /\ i.comments_fail
          /\ i.fail_class \notin CaughtClasses

\* get_timeline() is requested and it, or the iteration over it, raises an
\* exception no handler names
TimelineRaises(c) ==
    LET i == c.issue[1]
    IN  i.fail_attr = "none" /\ ~CommentsRaise(c) /\ i.timeline_fail_after >= 0
          /\ i.fail_class \notin CaughtClasses

\* _ensure_audit_data_fetched: the record after the call.  Reading the attribute
\* named by fail_attr raises; the handlers catch the classes they name, any other
\* exception leaves the call with the fields set so far.
_ensure_audit_data_fetched(c) ==
    IF c.audit_data_fetched \/ c.issue = <<>> THEN c
    ELSE LET i == c.issue[1]
             c0 == [c EXCEPT !.audit_data_fetched = TRUE]
             c1 == IF Truthy(i.user) THEN [c0 EXCEPT !.created_by = i.user] ELSE c0
             c2 == IF Truthy(i.closed_by) THEN [c1 EXCEPT !.closed_by = i.closed_by] ELSE c1
             c3 == [c2 EXCEPT !.comments_count = i.comments]
             c4 == FetchLastComment(c3)
         IN  CASE i.fail_attr = "user" -> c0
               [] i.fail_attr = "closed_by" -> c1
               [] i.fail_attr = "comments" -> c2
               [] CommentsRaise(c) -> c3
               [] TimelineRaises(c) -> c4
               [] OTHER -> [c4 EXCEPT !.audit_events = _fetch_audit_events(c4)]

\* the exception that leaves _ensure_audit_data_fetched: "none" or its class
audit_fetch_raises(c) ==
    IF c.audit_data_fetched \/ c.issue = <<>> THEN "none"
    ELSE LET i == c.issue[1]
         IN  IF i.fail_class \in CaughtClasses THEN "none"
             ELSE IF i.fail_attr # "none" \/ CommentsRaise(c) \/ TimelineRaises(c)
             THEN i.fail_class
             ELSE "none"

\* get_comments() requests one call of _ensure_audit_data_fetched sends
CommentRequests(c) ==
    IF c.audit_data_fetched \/ c.issue = <<>> THEN 0
    ELSE IF c.issue[1].fail_attr = "none" /\ c.issue[1].comments > 0 THEN 1 ELSE 0

\* get_timeline() requests one call of _ensure_audit_data_fetched sends
TimelineRequests(c) ==
    IF c.audit_data_fetched \/ c.issue = <<>> THEN 0
    ELSE IF c.issue[1].fail_attr = "none" /\ ~CommentsRaise(c) THEN 1 ELSE 0

\* the audit properties: each ensures the fetch, then returns its field
AuditProperties ==
    {"created_by", "closed_by", "comments_count",
     "last_commented_at", "last_commented_by", "audit_events"}

AuditProperty(c, name) ==
    LET f == _ensure_audit_data_fetched(c)
    IN  CASE name = "created_by" -> f.created_by
          [] name = "closed_by" -> f.closed_by
          [] name = "comments_count" -> f.comments_count
          [] name = "audit_events" -> f.audit_events
          [] name = "last_commented_at" -> f.last_commented_at
          [] name = "last_commented_by" -> f.last_commented_by

\* n reads of audit properties in a row: the record after them and the requests sent
RECURSIVE AuditReads(_, _)
AuditReads(c, n) ==
    IF n = 0 THEN [c |-> c, comment_requests |-> 0, timeline_requests |-> 0]
    ELSE LET rest == AuditReads(_ensure_audit_data_fetched(c), n - 1)
         IN  [rest EXCEPT !.comment_requests = @ + CommentRequests(c),
                          !.timeline_requests = @ + TimelineRequests(c)]

\* the number of property reads get_audit_data makes: each of the six fields is
\* read in its condition and read again when the condition holds (lines 329-346)
GetAuditDataReads(c) ==
    LET f == _ensure_audit_data_fetched(c)
        Again(b) == IF b THEN 1 ELSE 0
    IN  6 + Again(Truthy(f.created_by)) + Again(Truthy(f.closed_by))
          + Again(f.comments_count > 0) + Again(Truthy(f.last_commented_at))
          + Again(Truthy(f.last_commented_by)) + Again(f.audit_events # <<>>)

\* mutant: comments_count is added whatever its value
get_audit_data_count_always(c) ==
    LET f == _ensure_audit_data_fetched(c)
        d1 == IF Truthy(f.created_by) THEN <<<<"created_by", f.created_by>>>> ELSE <<>>
        d2 == IF Truthy(f.closed_by) THEN DictPut(d1, "closed_by", f.closed_by) ELSE d1
        d3 == DictPut(d2, "comments_count", f.comments_count)
        d4 == IF Truthy(f.last_commented_at)
              THEN DictPut(d3, "last_commented_at", f.last_commented_at) ELSE d3
        d5 == IF Truthy(f.last_commented_by)
              THEN DictPut(d4, "last_commented_by", f.last_commented_by) ELSE d4
    IN  IF f.audit_events # <<>> THEN DictPut(d5, "audit_events", f.audit_events) ELSE d5

\* get_audit_data: the dict returned
get_audit_data(c) ==
    LET f == _ensure_audit_data_fetched(c)
        d1 == IF Truthy(f.created_by) THEN <<<<"created_by", f.created_by>>>> ELSE <<>>
        d2 == IF Truthy(f.closed_by) THEN DictPut(d1, "closed_by", f.closed_by) ELSE d1
        d3 == IF f.comments_count > 0
              THEN DictPut(d2, "comments_count", f.comments_count) ELSE d2
        d4 == IF Truthy(f.last_commented_at)
              THEN DictPut(d3, "last_commented_at", f.last_commented_at) ELSE d3
        d5 == IF Truthy(f.last_commented_by)
              THEN DictPut(d4, "last_commented_by", f.last_commented_by) ELSE d4
    IN  IF f.audit_events # <<>> THEN DictPut(d5, "audit_events", f.audit_events) ELSE d5

----------------------------------------------------------------------------
(* The hosting platform's data, as the program sees it *)

\* what the platform answers to the audit reads of one issue.  fail_attr names
\* the attribute whose read fails, comments_fail says that get_comments() fails,
\* timeline_fail_after is the number of events the timeline delivers before it
\* fails (-1: it does not fail); fail_class is the class of the exception a
\* failing read raises
NoAudit ==
    [ user |-> None, closed_by |-> None, comments |-> 0, fail_attr |-> "none",
      fail_class |-> "GithubException",
      comment_list |-> <<>>, comments_fail |-> FALSE,
      timeline |-> <<>>, timeline_fail_after |-> -1 ]

\* a github.Issue object
GitHubIssue(issue_number, issue_title, issue_labels, audit) ==
    [ number |-> issue_number, title |-> issue_title, state |-> "open",
      created_at |-> "2025-01-01", updated_at |-> "2025-01-02", closed_at |-> None,
      html_url |-> "https://github.com/issues", body |-> "Issue body",
      labels |-> issue_labels,
      user |-> audit.user, closed_by |-> audit.closed_by, comments |-> audit.comments,
      fail_attr |-> audit.fail_attr, fail_class |-> audit.fail_class,
      comment_list |-> audit.comment_list, comments_fail |-> audit.comments_fail,
      timeline |-> audit.timeline, timeline_fail_after |-> audit.timeline_fail_after ]

Organizations == {<<"o">>}
RepositoryNames == {<<"a">>, <<"b">>}
RepositoryIds == {RepositoryId(o, r) : o \in Organizations, r \in RepositoryNames}
Titles == {"T1", "T2"}

\* the issues of the platform the model draws from: o/a#1, o/a#2 and o/b#1
IssueSlots == { <<RepositoryId(<<"o">>, <<"a">>), 1>>, <<RepositoryId(<<"o">>, <<"a">>), 2>>,
                <<RepositoryId(<<"o">>, <<"b">>), 1>> }

\* every list of the three supported labels in the platform's order, and one
\* list with a label of no documentation meaning
LabelLists ==
    { <<>>,
      <<DOC_USER_STORY_LABEL>>, <<DOC_FEATURE_LABEL>>, <<DOC_FUNCTIONALITY_LABEL>>,
      <<DOC_FEATURE_LABEL, DOC_USER_STORY_LABEL>>,
      <<DOC_FUNCTIONALITY_LABEL, DOC_USER_STORY_LABEL>>,
      <<DOC_FUNCTIONALITY_LABEL, DOC_FEATURE_LABEL>>,
      <<DOC_FUNCTIONALITY_LABEL, DOC_FEATURE_LABEL, DOC_USER_STORY_LABEL>>,
      <<"bug", DOC_FUNCTIONALITY_LABEL>> }

\* the (title, labels) an issue is read with: every label list under one title, and
\* two label lists under a second title (the issue was edited between two fetches)
IssueVersions ==
    {<<"T1", l>> : l \in LabelLists}
      \cup {<<"T2", <<DOC_FEATURE_LABEL>>>>, <<"T2", <<DOC_FUNCTIONALITY_LABEL, DOC_USER_STORY_LABEL>>>>}

\* a ProjectStatus of one board
\* the value of a ProjectStatus field that was never assigned
Unset == "<unset>"

ProjectStatus(project_title, status) ==
    [ project_title |-> project_title, status |-> status,
      priority |-> Unset, size |-> Unset, moscow |-> Unset ]

\* a ProjectIssue: one item of one board
ProjectIssue(organization_name, repository_name, issue_number, project_status) ==
    [ organization_name |-> organization_name, repository_name |-> repository_name,
      number |-> issue_number, project_status |-> project_status ]

ProjectIssueKey(project_issue) ==
    make_issue_key(project_issue.organization_name, project_issue.repository_name,
                   project_issue.number)

\* ProjectIssue.__init__: number 0, empty names, a fresh ProjectStatus
NewProjectIssue == ProjectIssue(<<>>, <<>>, 0, ProjectStatus(Unset, Unset))

\* a GitHubProject as loads reads it: its title and its field options, a dict
\* field name -> list of option names
GitHubProject(project_title, field_options) ==
    [ title |-> project_title, field_options |-> field_options ]

\* project.field_options.get(name, [])
FieldOptions(project, name) ==
    IF DictHas(project.field_options, name) THEN DictGet(project.field_options, name)
    ELSE <<>>

\* the `content` of an item node that is an issue; a content is <<>> (null) or
\* <<object>>
IssueContent(organization_name, repository_name, issue_number) ==
    << << <<"number", issue_number>>,
          <<"repository", << <<"name", repository_name>>,
                             <<"owner", << <<"login", organization_name>> >> >> >> >> >> >>

\* a content that is not an issue (no field of the Issue fragment), a null
\* content, and an issue content cut after its number
EmptyContent == << <<>> >>
NullContent == <<>>
CutContent(issue_number) == << << <<"number", issue_number>> >> >>

\* the three assignments of the try block (lines 85-87): the fields assigned
\* before the first KeyError keep their values, the others their defaults
ContentFields(content) ==
    LET has_number == DictHas(content, "number")
        has_name == has_number /\ DictHas(content, "repository")
                    /\ DictHas(DictGet(content, "repository"), "name")
        has_login == has_name /\ DictHas(DictGet(content, "repository"), "owner")
                     /\ DictHas(DictGet(DictGet(content, "repository"), "owner"), "login")
    IN  [ number |-> IF has_number THEN DictGet(content, "number") ELSE 0,
          repository_name |-> IF has_name
                              THEN DictGet(DictGet(content, "repository"), "name") ELSE <<>>,
          organization_name |-> IF has_login
                                THEN DictGet(DictGet(DictGet(content, "repository"), "owner"),
                                             "login")
                                ELSE <<>> ]

\* the names of the single-select field values of an item node (lines 94-98)
FieldTypes(issue_json) ==
    IF ~DictHas(issue_json, "fieldValues") THEN <<>>
    ELSE LET nodes == DictGet(DictGet(issue_json, "fieldValues"), "nodes")
             selected == SelectSeq(nodes,
                             LAMBDA node : DictGet(node, "__typename")
                                             = "ProjectV2ItemFieldSingleSelectValue")
         IN  [i \in 1..Len(selected) |-> DictGet(selected[i], "name")]

\* mutant: a value found in a vocabulary is kept only when the field is unset
RECURSIVE StatusFromFields_first_kept(_, _, _)
StatusFromFields_first_kept(project_status, field_types, project) ==
    IF field_types = <<>> THEN project_status
    ELSE LET field_type == Head(field_types)
             updated ==
                 IF In(field_type, FieldOptions(project, "Status"))
                 THEN IF project_status.status = Unset
                      THEN [project_status EXCEPT !.status = field_type] ELSE project_status
                 ELSE IF In(field_type, FieldOptions(project, "Priority"))
                 THEN IF project_status.priority = Unset
                      THEN [project_status EXCEPT !.priority = field_type] ELSE project_status
                 ELSE IF In(field_type, FieldOptions(project, "Size"))
                 THEN IF project_status.size = Unset
                      THEN [project_status EXCEPT !.size = field_type] ELSE project_status
                 ELSE IF In(field_type, FieldOptions(project, "MoSCoW"))
                 THEN IF project_status.moscow = Unset
                      THEN [project_status EXCEPT !.moscow = field_type] ELSE project_status
                 ELSE project_status
         IN  StatusFromFields_first_kept(updated, Tail(field_types), project)

\* the loop over field_types (lines 101-109)
RECURSIVE StatusFromFields(_, _, _)
StatusFromFields(project_status, field_types, project) ==
    IF field_types = <<>> THEN project_status
    ELSE LET field_type == Head(field_types)
             updated ==
                 IF In(field_type, FieldOptions(project, "Status"))
                 THEN [project_status EXCEPT !.status = field_type]
                 ELSE IF In(field_type, FieldOptions(project, "Priority"))
                 THEN [project_status EXCEPT !.priority = field_type]
                 ELSE IF In(field_type, FieldOptions(project, "Size"))
                 THEN [project_status EXCEPT !.size = field_type]
                 ELSE IF In(field_type, FieldOptions(project, "MoSCoW"))
                 THEN [project_status EXCEPT !.moscow = field_type]
                 ELSE project_status
         IN  StatusFromFields(updated, Tail(field_types), project)

\* the ProjectIssue that loads fills from a content object and the field values
\* of the node (lines 84-109)
LoadedIssue(issue_json, content, project) ==
    LET fields == ContentFields(content)
        project_status ==
            StatusFromFields([NewProjectIssue.project_status
                                 EXCEPT !.project_title = project.title],
                             FieldTypes(issue_json), project)
    IN  ProjectIssue(fields.organization_name, fields.repository_name,
                     fields.number, project_status)

\* mutant: a node without content is loaded like a node with an empty content
loads_without_content_test(issue_json, project) ==
    IF ~DictHas(issue_json, "content")
    THEN [raised |-> "none", result |-> <<LoadedIssue(issue_json, <<>>, project)>>]
    ELSE IF DictGet(issue_json, "content") = NullContent
    THEN [raised |-> "TypeError", result |-> <<>>]
    ELSE [ raised |-> "none",
           result |-> <<LoadedIssue(issue_json, DictGet(issue_json, "content")[1], project)>> ]

\* ProjectIssue().loads(issue_json, project): the value returned, <<>> (None) or
\* <<project issue>>, and the exception that leaves the call.  A null content is
\* subscripted at line 85, which raises TypeError; the handler takes KeyError only.
loads(issue_json, project) ==
    IF ~DictHas(issue_json, "content") THEN [raised |-> "none", result |-> <<>>]
    ELSE IF DictGet(issue_json, "content") = NullContent
    THEN [raised |-> "TypeError", result |-> <<>>]
    ELSE [ raised |-> "none",
           result |-> <<LoadedIssue(issue_json, DictGet(issue_json, "content")[1], project)>> ]

----------------------------------------------------------------------------
(* GHDocIssuesCollector._consolidate_issues_data (doc_issues/collector.py) *)

\* mutant: the feature label is tested before the user-story label
IssueTypeOf_feature_first(label_list) ==
    IF In(DOC_FEATURE_LABEL, label_list) THEN "FeatureIssue"
    ELSE IF In(DOC_USER_STORY_LABEL, label_list) THEN "UserStoryIssue"
    ELSE IF In(DOC_FUNCTIONALITY_LABEL, label_list) THEN "FunctionalityIssue"
    ELSE "Issue"

\* the issue_type of a label list (lines 260-267)
IssueTypeOf(label_list) ==
    IF In(DOC_USER_STORY_LABEL, label_list) THEN "UserStoryIssue"
    ELSE IF In(DOC_FEATURE_LABEL, label_list) THEN "FeatureIssue"
    ELSE IF In(DOC_FUNCTIONALITY_LABEL, label_list) THEN "FunctionalityIssue"
    ELSE "Issue"

\* mutant: the key is built from the first part of the repository id twice
RepositoryIssueKey_first_part_twice(repository_id, repository_issue) ==
    LET repo_id_parts == Split(repository_id, "/")
    IN  make_issue_key(repo_id_parts[1], repo_id_parts[1], repository_issue.number)

\* the composite key of a repository issue (lines 252-253)
RepositoryIssueKey(repository_id, repository_issue) ==
    LET repo_id_parts == Split(repository_id, "/")
    IN  make_issue_key(repo_id_parts[1], repo_id_parts[2], repository_issue.number)

\* mutant: a later sighting replaces the stored record
consolidate_issue_overwrite(consolidated, repository_id, repository_issue) ==
    LET unique_key == RepositoryIssueKey(repository_id, repository_issue)
        created == labels_cached(ConsolidatedIssue(repository_id, <<repository_issue>>))
        typed == [created EXCEPT !.issue_type = IssueTypeOf(created.issue_labels)]
    IN  IF ~DictHas(consolidated, unique_key)
        THEN DictPut(consolidated, unique_key, typed)
        ELSE DictPut(consolidated, unique_key,
                     [typed EXCEPT !.errors = DictPut(@, MULTIPLE_LABELS, MULTIPLE_LABELS_MESSAGE)])

\* mutant: a later sighting is dropped without an error
consolidate_issue_silent(consolidated, repository_id, repository_issue) ==
    LET unique_key == RepositoryIssueKey(repository_id, repository_issue)
    IN  IF ~DictHas(consolidated, unique_key)
        THEN LET created == labels_cached(ConsolidatedIssue(repository_id, <<repository_issue>>))
             IN  DictPut(consolidated, unique_key,
                         [created EXCEPT !.issue_type = IssueTypeOf(created.issue_labels)])
        ELSE consolidated

\* one pass of the inner loop over the repository issues (lines 252-279)
consolidate_issue(consolidated, repository_id, repository_issue) ==
    LET unique_key == RepositoryIssueKey(repository_id, repository_issue)
    IN  IF ~DictHas(consolidated, unique_key)
        THEN LET created == labels_cached(ConsolidatedIssue(repository_id, <<repository_issue>>))
             IN  DictPut(consolidated, unique_key,
                         [created EXCEPT !.issue_type = IssueTypeOf(created.issue_labels)])
        ELSE DictPut(consolidated, unique_key,
                     [DictGet(consolidated, unique_key) EXCEPT
                         !.errors = DictPut(@, MULTIPLE_LABELS, MULTIPLE_LABELS_MESSAGE)])

\* mutant: only the first project issue of the list is used
UpdateWithFirst(c, project_issue_list) ==
    IF project_issue_list = <<>> THEN c
    ELSE update_with_project_data(c, Head(project_issue_list).project_status)

\* update_with_project_data for every project issue of a list, in list order
RECURSIVE UpdateWithAll(_, _)
UpdateWithAll(c, project_issue_list) ==
    IF project_issue_list = <<>> THEN c
    ELSE UpdateWithAll(update_with_project_data(c, Head(project_issue_list).project_status),
                       Tail(project_issue_list))

\* one pass of the loop over the consolidated issues (lines 283-286)
update_consolidated(consolidated, projects, i) ==
    LET key == consolidated[i][1]
    IN  IF DictHas(projects, key)
        THEN [consolidated EXCEPT ![i] = <<key, UpdateWithAll(consolidated[i][2], DictGet(projects, key))>>]
        ELSE consolidated

\* the loop over the issues of the repositories, in dict and list order
\* (lines 250-279)
RECURSIVE ConsolidateList(_, _, _)
ConsolidateList(consolidated, repository_id, issue_list) ==
    IF issue_list = <<>> THEN consolidated
    ELSE ConsolidateList(consolidate_issue(consolidated, repository_id, Head(issue_list)),
                         repository_id, Tail(issue_list))

RECURSIVE ConsolidateRepositories(_, _)
ConsolidateRepositories(consolidated, repositories) ==
    IF repositories = <<>> THEN consolidated
    ELSE ConsolidateRepositories(
             ConsolidateList(consolidated, Head(repositories)[1], Head(repositories)[2]),
             Tail(repositories))

\* the loop over the consolidated issues (lines 283-286)
RECURSIVE UpdateAllFrom(_, _, _)
UpdateAllFrom(consolidated, projects, i) ==
    IF i > Len(consolidated) THEN consolidated
    ELSE UpdateAllFrom(update_consolidated(consolidated, projects, i), projects, i + 1)

\* mutant: a key of the project issues with no record gets a record of its own
_consolidate_issues_data_with_project_keys(repositories, projects) ==
    LET consolidated == UpdateAllFrom(ConsolidateRepositories(<<>>, repositories), projects, 1)
        extra == SelectSeq(projects, LAMBDA entry : ~DictHas(consolidated, entry[1]))
    IN  consolidated \o
        [i \in 1..Len(extra) |->
            <<extra[i][1],
              UpdateWithAll(ConsolidatedIssue(RepositoryId(extra[i][2][1].organization_name,
                                                           extra[i][2][1].repository_name),
                                              <<>>),
                            extra[i][2])>>]

_consolidate_issues_data(repositories, projects) ==
    UpdateAllFrom(ConsolidateRepositories(<<>>, repositories), projects, 1)

----------------------------------------------------------------------------
(* The persist stage (collector.py lines 294-370) *)

\* mutant: the creator's login is copied into the record
convert_to_issue_for_persist_with_creator(c) ==
    [ kind |-> c.issue_type,
      repository_id |-> c.repository_id,
      title |-> title(c),
      issue_number |-> number(c),
      state |-> state(c),
      created_at |-> created_at(c),
      updated_at |-> updated_at(c),
      closed_at |-> closed_at(c),
      html_url |-> html_url(c),
      body |-> body(c),
      labels |-> labels(c),
      linked_to_project |-> c.linked_to_project,
      project_statuses |-> c.project_issue_statuses,
      errors |-> c.errors,
      created_by |-> c.created_by ]

\* ConsolidatedIssue.convert_to_issue_for_persist: the Issue record of the kind
\* issue_type names
convert_to_issue_for_persist(c) ==
    [ kind |-> c.issue_type,
      repository_id |-> c.repository_id,
      title |-> title(c),
      issue_number |-> number(c),
      state |-> state(c),
      created_at |-> created_at(c),
      updated_at |-> updated_at(c),
      closed_at |-> closed_at(c),
      html_url |-> html_url(c),
      body |-> body(c),
      labels |-> labels(c),
      linked_to_project |-> c.linked_to_project,
      project_statuses |-> c.project_issue_statuses,
      errors |-> c.errors ]

\* Issue.is_valid_issue: repository id, title and issue number are defined
is_valid_issue(issue) ==
    issue.repository_id # <<>> /\ issue.title # "" /\ issue.issue_number # 0

\* mutant: an invalid issue is flagged and added all the same
store_issue_no_continue(store, key, item) ==
    LET issue == convert_to_issue_for_persist(item)
    IN  [store EXCEPT !.invalid_issue_detected = @ \/ ~is_valid_issue(issue),
                      !.issues = DictPut(@, key, issue)]

\* one pass of the loop of _store_consolidated_issues (lines 304-319) over the
\* store state [issues, invalid_issue_detected]
store_issue(store, key, item) ==
    LET issue == convert_to_issue_for_persist(item)
    IN  IF ~is_valid_issue(issue)
        THEN [store EXCEPT !.invalid_issue_detected = TRUE]
        ELSE [store EXCEPT !.issues = DictPut(@, key, issue)]

\* mutant: the audit data is not merged into the entry
issue_entry_without_audit(key, issue, consolidated) ==
    [fields |-> issue, audit |-> <<>>]

\* the entry of one issue in the output file: its fields and, on top, the audit
\* data of the consolidated issue of the same key (lines 349-357)
issue_entry(key, issue, consolidated) ==
    [ fields |-> issue,
      audit |-> IF DictHas(consolidated, key)
                THEN get_audit_data(DictGet(consolidated, key)) ELSE <<>> ]

\* _save_issues_with_audit_data: the "issues" object of the output file
issues_data(persisted, consolidated) ==
    [i \in 1..Len(persisted) |->
        <<persisted[i][1], issue_entry(persisted[i][1], persisted[i][2], consolidated)>>]

\* the consolidated issues after the audit reads of the save
AuditedAfterSave(persisted, consolidated) ==
    [i \in 1..Len(consolidated) |->
        IF DictHas(persisted, consolidated[i][1])
        THEN <<consolidated[i][1], _ensure_audit_data_fetched(consolidated[i][2])>>
        ELSE consolidated[i]]

\* the position in the persisted issues of the first one whose get_audit_data
\* call raises while the file content is built (line 354); 0 when none does
FirstAuditRaise(persisted, consolidated) ==
    LET raising == {i \in 1..Len(persisted) :
                      /\ DictHas(consolidated, persisted[i][1])
                      /\ audit_fetch_raises(DictGet(consolidated, persisted[i][1])) # "none"}
    IN  IF raising = {} THEN 0 ELSE CHOOSE i \in raising : \A j \in raising : i <= j

\* mutant: the error bags of the persisted issues are not looked at
without_error_flag_only(persisted, invalid_detected) == ~invalid_detected

\* the value _store_consolidated_issues returns (lines 327-331), which collect
\* returns in turn (lines 107-110)
without_error(persisted, invalid_detected) ==
    ~((\E i \in 1..Len(persisted) : Len(persisted[i][2].errors) > 0) \/ invalid_detected)

----------------------------------------------------------------------------
(* Values of the variables a specification leaves alone *)

ConfigIdle == cfg_repositories = <<>> /\ cfg_mining = FALSE /\ remote_issues = <<>>

RunIdle ==
    /\ output_dir = "stale" /\ fetch_index = 1 /\ lookup_failed = FALSE
    /\ repository_issues = <<>>
    /\ issues = <<>> /\ invalid_issue_detected = FALSE /\ skipped = {}
    /\ output_file = <<>> /\ result = "none" /\ raised = "none" /\ remote_calls = <<>>

ConsolidationIdle ==
    project_issues = <<>> /\ consolidated_issues = <<>> /\ cursor = 1 /\ sightings = <<>>

UnitIdle ==
    ci = <<>> /\ calls = <<>> /\ comment_requests = 0 /\ timeline_requests = 0

BoardIdle == board = <<>> /\ responses = <<>> /\ loaded = <<>>

configVars == <<cfg_repositories, cfg_mining, remote_issues>>
runVars == <<output_dir, fetch_index, lookup_failed, repository_issues, issues,
             invalid_issue_detected, skipped, output_file, result, raised,
             remote_calls>>
unitVars == <<ci, calls, comment_requests, timeline_requests>>
boardVars == <<board, responses, loaded>>

----------------------------------------------------------------------------
(* SpecConsolidate: _consolidate_issues_data on any repository issues, read   *)
(* one by one, and a project-issues map                                       *)

\* project-issues maps as _fetch_github_project_issues builds them: each list
\* under the key of its entries
ProjectIssuesOf(project_issue_list) ==
    LET RECURSIVE Build(_, _)
        Build(d, rest) ==
            IF rest = <<>> THEN d
            ELSE LET key == ProjectIssueKey(Head(rest))
                 IN  Build(DictPut(d, key,
                                   IF DictHas(d, key) THEN Append(DictGet(d, key), Head(rest))
                                   ELSE <<Head(rest)>>),
                           Tail(rest))
    IN  Build(<<>>, project_issue_list)

ProjectIssueLists ==
    LET a1todo == ProjectIssue(<<"o">>, <<"a">>, 1, ProjectStatus("P1", "Todo"))
        a1done == ProjectIssue(<<"o">>, <<"a">>, 1, ProjectStatus("P2", "Done"))
        b1todo == ProjectIssue(<<"o">>, <<"b">>, 1, ProjectStatus("P1", "Todo"))
        a7done == ProjectIssue(<<"o">>, <<"a">>, 7, ProjectStatus("P2", "Done"))
    IN  { <<>>, <<a1todo>>, <<a1done, a1todo>>, <<a1todo, b1todo, a1todo>>,
          <<a7done, b1todo>> }

InitConsolidate ==
    /\ pc = "consolidate"
    /\ ConfigIdle /\ RunIdle /\ UnitIdle
    /\ \E l \in ProjectIssueLists : project_issues = ProjectIssuesOf(l)
    /\ consolidated_issues = <<>>
    /\ cursor = 1
    /\ sightings = <<>>
    /\ BoardIdle

\* history of the issues read: per (repository id, number) the first issue read,
\* the issue_type its record got then, and how many were read
Sighted(history, repository_id, repository_issue, consolidated_after) ==
    LET slot == <<repository_id, repository_issue.number>>
    IN  IF DictHas(history, slot)
        THEN DictPut(history, slot, [DictGet(history, slot) EXCEPT !.count = @ + 1])
        ELSE DictPut(history, slot,
                     [first |-> repository_issue,
                      first_type |-> DictGet(consolidated_after,
                                             RepositoryIssueKey(repository_id, repository_issue)).issue_type,
                      count |-> 1])

RECURSIVE SightingsCount(_)
SightingsCount(history) ==
    IF history = <<>> THEN 0 ELSE Head(history)[2].count + SightingsCount(Tail(history))

\* the loop over the repository issues reads the next issue (lines 250-279)
ConsolidateIssue ==
    /\ pc = "consolidate"
    /\ SightingsCount(sightings) < MaxSightings
    /\ \E slot \in IssueSlots, version \in IssueVersions :
         LET repository_id == slot[1]
             repository_issue == GitHubIssue(slot[2], version[1], version[2], NoAudit)
         IN  /\ consolidated_issues' = consolidate_issue(consolidated_issues, repository_id, repository_issue)
             /\ sightings' = Sighted(sightings, repository_id, repository_issue, consolidated_issues')
    /\ UNCHANGED <<pc, project_issues, cursor, configVars, runVars, unitVars>>
    /\ UNCHANGED boardVars

\* the repository issues are exhausted: the loop over the consolidated issues starts
ConsolidateProjects ==
    /\ pc = "consolidate"
    /\ pc' = "update"
    /\ cursor' = 1
    /\ UNCHANGED <<project_issues, consolidated_issues, sightings, configVars, runVars, unitVars>>
    /\ UNCHANGED boardVars

\* the loop over the consolidated issues handles the next one (lines 283-286)
UpdateConsolidated ==
    /\ pc = "update"
    /\ cursor <= Len(consolidated_issues)
    /\ consolidated_issues' = update_consolidated(consolidated_issues, project_issues, cursor)
    /\ cursor' = cursor + 1
    /\ UNCHANGED <<pc, project_issues, sightings, configVars, runVars, unitVars>>
    /\ UNCHANGED boardVars

\* return consolidated_issues (line 292)
ConsolidateReturn ==
    /\ pc = "update"
    /\ cursor > Len(consolidated_issues)
    /\ pc' = "consolidated"
    /\ UNCHANGED <<project_issues, consolidated_issues, cursor, sightings,
                   configVars, runVars, unitVars>>
    /\ UNCHANGED boardVars

NextConsolidate ==
    \/ ConsolidateIssue
    \/ ConsolidateProjects
    \/ UpdateConsolidated
    \/ ConsolidateReturn

SpecConsolidate == InitConsolidate /\ [][NextConsolidate]_vars

----------------------------------------------------------------------------
(* Claims on _consolidate_issues_data *)

\* the composite key org/repo#number of an issue read from a repository
KeyText(slot) == slot[1] \o <<"#">> \o IntToStr(slot[2])

\* C1: a second or later sighting of a composite key never replaces the stored
\* record: the record keeps the backing issue (title, number, labels) and the
\* issue_type of the first sighting, and its error bag is the single entry
\* "multiple_labels", however often the key is sighted again.
C1_FirstSightingKept ==
    \A i \in 1..Len(sightings) :
        LET slot == sightings[i][1]
            seen == sightings[i][2]
        IN  seen.count >= 2 =>
              /\ DictHas(consolidated_issues, KeyText(slot))
              /\ LET c == DictGet(consolidated_issues, KeyText(slot))
                 IN  /\ c.issue = <<seen.first>>
                     /\ title(c) = seen.first.title
                     /\ number(c) = seen.first.number
                     /\ labels(c) = seen.first.labels
                     /\ c.issue_type = seen.first_type
                     /\ c.repository_id = slot[1]
                     /\ c.errors = << <<MULTIPLE_LABELS, MULTIPLE_LABELS_MESSAGE>> >>

\* a key was sighted three times, the later sightings differing from the first
C1_Witness ==
    /\ pc = "consolidated"
    /\ \E i \in 1..Len(sightings) :
         /\ sightings[i][2].count = 3
         /\ DictGet(consolidated_issues, KeyText(sightings[i][1])).errors # <<>>

\* C2: exactly one ConsolidatedIssue per distinct composite key: the keys of the
\* result are the keys org/repo#number of the repository issues read, none twice.
C2_OneRecordPerKey ==
    /\ Range(DictKeys(consolidated_issues)) = {KeyText(sightings[i][1]) : i \in 1..Len(sightings)}
    /\ Len(consolidated_issues) = Cardinality(Range(DictKeys(consolidated_issues)))
    /\ Len(consolidated_issues) = Len(sightings)

\* two repositories with the same issue number, one key sighted again
C2_Witness ==
    /\ pc = "consolidated"
    /\ Len(consolidated_issues) = 2
    /\ \E i, j \in 1..Len(sightings) :
         /\ sightings[i][1][1] # sightings[j][1][1]
         /\ sightings[i][1][2] = sightings[j][1][2]
         /\ sightings[i][2].count = 2

\* the issue_type the precedence user-story > feature > functionality > generic
\* gives a set of label names
TypeByPrecedence(label_set) ==
    CASE DOC_USER_STORY_LABEL \in label_set -> "UserStoryIssue"
      [] DOC_USER_STORY_LABEL \notin label_set /\ DOC_FEATURE_LABEL \in label_set -> "FeatureIssue"
      [] {DOC_USER_STORY_LABEL, DOC_FEATURE_LABEL} \cap label_set = {}
            /\ DOC_FUNCTIONALITY_LABEL \in label_set -> "FunctionalityIssue"
      [] OTHER -> "Issue"

\* C3: the issue_type of every consolidated record is determined by the label set
\* of its issue alone, by the precedence user-story > feature > functionality >
\* generic.
C3_TypeByLabelPrecedence ==
    \A i \in 1..Len(consolidated_issues) :
        LET c == consolidated_issues[i][2]
        IN  c.issue_type = TypeByPrecedence(Range(c.issue[1].labels))

\* a record with feature and user-story labels (feature listed first) and a record
\* with no supported label
C3_Witness ==
    /\ pc = "consolidated"
    /\ \E i, j \in 1..Len(consolidated_issues) :
         /\ consolidated_issues[i][2].issue[1].labels = <<DOC_FEATURE_LABEL, DOC_USER_STORY_LABEL>>
         /\ consolidated_issues[i][2].issue_type = "UserStoryIssue"
         /\ consolidated_issues[j][2].issue[1].labels = <<>>
         /\ consolidated_issues[j][2].issue_type = "Issue"

\* C5: after _consolidate_issues_data every record whose key is in the
\* project-issues map holds the project statuses of that key's project issues in
\* fetch order, and every other record is not linked and has no status.
C5_ProjectStatusesInFetchOrder ==
    pc = "consolidated" =>
      \A i \in 1..Len(consolidated_issues) :
          LET key == consolidated_issues[i][1]
              c == consolidated_issues[i][2]
          IN  IF \E j \in 1..Len(project_issues) : project_issues[j][1] = key
              THEN LET listed == project_issues[CHOOSE j \in 1..Len(project_issues) :
                                                  project_issues[j][1] = key][2]
                   IN  /\ Len(c.project_issue_statuses) = Len(listed)
                       /\ \A k \in 1..Len(listed) :
                            c.project_issue_statuses[k] = listed[k].project_status
              ELSE c.linked_to_project = FALSE /\ c.project_issue_statuses = <<>>

\* a record with two statuses of different boards beside a record with none
C5_Witness ==
    /\ pc = "consolidated"
    /\ \E i, j \in 1..Len(consolidated_issues) :
         /\ Len(consolidated_issues[i][2].project_issue_statuses) = 2
         /\ consolidated_issues[i][2].project_issue_statuses[1].project_title = "P2"
         /\ consolidated_issues[i][2].project_issue_statuses[2].project_title = "P1"
         /\ ~consolidated_issues[j][2].linked_to_project

----------------------------------------------------------------------------
(* SpecIssue: one ConsolidatedIssue under any sequence of calls *)

\* a timeline event object with the attributes named in attrs
TimelineEvent(kind, actor, attrs) ==
    [ attrs |-> attrs, event |-> kind, created_at |-> "2025-01-02", actor |-> actor,
      label |-> "bug", assignee |-> "carol", milestone |-> "M1" ]

AllEventAttrs == {"event", "created_at", "actor", "label", "assignee", "milestone"}

\* answers of the platform to the audit reads of an issue
AuditWorlds ==
    LET full == [ user |-> "alice", closed_by |-> "bob", comments |-> 2, fail_attr |-> "none",
                  fail_class |-> "GithubException",
                  comment_list |-> << [created_at |-> "2025-01-03", user |-> "carol"],
                                      [created_at |-> "2025-01-04", user |-> "dave"] >>,
                  comments_fail |-> FALSE,
                  timeline |-> << TimelineEvent("labeled", "alice", AllEventAttrs),
                                  TimelineEvent("commented", "carol", AllEventAttrs),
                                  TimelineEvent("closed", "bob", AllEventAttrs) >>,
                  timeline_fail_after |-> -1 ]
    IN  { NoAudit,
          full,
          [full EXCEPT !.comments_fail = TRUE],
          [full EXCEPT !.timeline_fail_after = 0],
          [full EXCEPT !.timeline_fail_after = 1],
          [full EXCEPT !.fail_attr = "user"],
          [full EXCEPT !.fail_attr = "closed_by"],
          [full EXCEPT !.fail_attr = "comments"],
          [full EXCEPT !.comments = 0],
          [full EXCEPT !.comments_fail = TRUE, !.fail_class = "ConnectionError"],
          [full EXCEPT !.timeline_fail_after = 1, !.fail_class = "ConnectionError"],
          [full EXCEPT !.fail_attr = "closed_by", !.fail_class = "ConnectionError"],
          [full EXCEPT !.closed_by = None, !.comments = 1, !.comment_list = <<>>],
          [full EXCEPT !.user = None, !.comments = 1,
                       !.comment_list = << [created_at |-> None, user |-> None] >>,
                       !.timeline = << TimelineEvent("assigned", None, {"event", "created_at", "actor"}),
                                       TimelineEvent(None, "bob", AllEventAttrs) >>] }

Statuses == {ProjectStatus("P1", "Todo"), ProjectStatus("P2", "Done")}

InitIssue ==
    /\ pc = "issue"
    /\ ConfigIdle /\ RunIdle /\ ConsolidationIdle
    /\ \/ ci = ConsolidatedIssue(RepositoryId(<<"o">>, <<"a">>), <<>>)
       \/ \E a \in AuditWorlds :
            ci = ConsolidatedIssue(RepositoryId(<<"o">>, <<"a">>),
                                   <<GitHubIssue(1, "T1", <<DOC_FEATURE_LABEL>>, a)>>)
    /\ calls = <<>>
    /\ comment_requests = 0
    /\ timeline_requests = 0
    /\ BoardIdle

consolidationVars == <<project_issues, consolidated_issues, cursor, sightings>>

\* update_with_project_data(status) is called
UpdateWithProjectData ==
    /\ pc = "issue"
    /\ Len(calls) < MaxCalls
    /\ \E status \in Statuses :
         /\ ci' = update_with_project_data(ci, status)
         /\ calls' = Append(calls, <<"update_with_project_data", status>>)
    /\ UNCHANGED <<pc, comment_requests, timeline_requests,
                   configVars, runVars, consolidationVars>>
    /\ UNCHANGED boardVars

\* one of the audit properties is read: the value it returns, or the exception
\* that leaves it, is kept in the history
ReadAuditProperty ==
    /\ pc = "issue"
    /\ Len(calls) < MaxCalls
    /\ \E name \in AuditProperties :
         calls' = Append(calls,
                         IF audit_fetch_raises(ci) # "none"
                         THEN <<"read", name, "raised", audit_fetch_raises(ci)>>
                         ELSE <<"read", name, "returned", AuditProperty(ci, name)>>)
    /\ ci' = _ensure_audit_data_fetched(ci)
    /\ comment_requests' = comment_requests + CommentRequests(ci)
    /\ timeline_requests' = timeline_requests + TimelineRequests(ci)
    /\ UNCHANGED <<pc, configVars, runVars, consolidationVars>>
    /\ UNCHANGED boardVars

\* get_audit_data() is called: it reads created_by, closed_by, comments_count,
\* last_commented_at, last_commented_by and audit_events in turn (lines 329-346)
GetAuditData ==
    /\ pc = "issue"
    /\ Len(calls) < MaxCalls
    /\ calls' = Append(calls,
                       IF audit_fetch_raises(ci) # "none"
                       THEN <<"get_audit_data", "raised", audit_fetch_raises(ci)>>
                       ELSE <<"get_audit_data", "returned", get_audit_data(ci)>>)
    /\ LET after == AuditReads(ci, GetAuditDataReads(ci))
       IN  /\ ci' = after.c
           /\ comment_requests' = comment_requests + after.comment_requests
           /\ timeline_requests' = timeline_requests + after.timeline_requests
    /\ UNCHANGED <<pc, configVars, runVars, consolidationVars>>
    /\ UNCHANGED boardVars

NextIssue ==
    \/ UpdateWithProjectData
    \/ ReadAuditProperty
    \/ GetAuditData

SpecIssue == InitIssue /\ [][NextIssue]_vars

\* the statuses passed to update_with_project_data so far, in call order
RECURSIVE UpdateArguments(_)
UpdateArguments(history) ==
    IF history = <<>> THEN <<>>
    ELSE IF Head(history)[1] = "update_with_project_data"
    THEN <<Head(history)[2]>> \o UpdateArguments(Tail(history))
    ELSE UpdateArguments(Tail(history))

\* C4: after N >= 1 calls of update_with_project_data linked_to_project is true
\* and project_issue_statuses holds exactly the N arguments in call order; before
\* the first call linked_to_project is false and the list is empty.
C4_StatusesAreTheArguments ==
    LET arguments == UpdateArguments(calls)
    IN  /\ ci.project_issue_statuses = arguments
        /\ ci.linked_to_project = (Len(arguments) >= 1)

\* three calls, a status repeated
C4_Witness ==
    /\ Len(UpdateArguments(calls)) = 3
    /\ ci.project_issue_statuses[1] = ci.project_issue_statuses[3]
    /\ ci.project_issue_statuses[1] # ci.project_issue_statuses[2]
    /\ ci.linked_to_project

\* C6: the lazy audit fetch runs at most once per ConsolidatedIssue: over any
\* sequence of audit property reads and get_audit_data calls the comment list is
\* requested at most once and the timeline at most once, also after a fetch that
\* failed partly or wholly.
C6_AuditFetchedAtMostOnce ==
    /\ comment_requests <= 1
    /\ timeline_requests <= 1
    /\ (ci.issue = <<>> => comment_requests = 0 /\ timeline_requests = 0)

\* the comment fetch failed and the audit data was read three times
C6_Witness ==
    /\ Len(calls) >= 3
    /\ \A i \in 1..Len(calls) : calls[i][1] # "update_with_project_data"
    /\ ci.issue # <<>>
    /\ ci.issue[1].comments_fail
    /\ comment_requests = 1
    /\ timeline_requests = 1

\* the value an audit field has after construction (lines 60-65)
InitialAuditValue(name) ==
    CASE name = "comments_count" -> 0
      [] name = "audit_events" -> <<>>
      [] OTHER -> None

\* the dicts the get_audit_data calls made so far returned, in call order
RECURSIVE ReturnedAuditData(_)
ReturnedAuditData(history) ==
    IF history = <<>> THEN <<>>
    ELSE IF Head(history)[1] = "get_audit_data" /\ Head(history)[2] = "returned"
    THEN <<Head(history)[3]>> \o ReturnedAuditData(Tail(history))
    ELSE ReturnedAuditData(Tail(history))

\* some audit property read or get_audit_data call so far raised
SomeCallRaised ==
    \E k \in 1..Len(calls) :
        \/ calls[k][1] = "read" /\ calls[k][3] = "raised"
        \/ calls[k][1] = "get_audit_data" /\ calls[k][2] = "raised"

\* C15: on a ConsolidatedIssue with no backing repository issue, after any
\* sequence of calls, get_audit_data returns an empty mapping, every audit
\* property returns its initial value (None, 0, empty list), and no remote call
\* is made.
C15_NoIssueNoAudit ==
    ci.issue = <<>> =>
      /\ \A k \in 1..Len(calls) :
            /\ calls[k][1] = "get_audit_data" => calls[k] = <<"get_audit_data", "returned", <<>>>>
            /\ calls[k][1] = "read" =>
                  calls[k] = <<"read", calls[k][2], "returned", InitialAuditValue(calls[k][2])>>
      /\ comment_requests = 0
      /\ timeline_requests = 0

\* a record with no issue after an update, two property reads and get_audit_data
C15_Witness ==
    /\ ci.issue = <<>>
    /\ Len(calls) = 4
    /\ calls[1][1] = "update_with_project_data"
    /\ calls[2] = <<"read", "comments_count", "returned", 0>>
    /\ calls[3] = <<"read", "audit_events", "returned", <<>>>>
    /\ calls[4] = <<"get_audit_data", "returned", <<>>>>

\* C16: when the backing issue reports zero comments the comment list is never
\* requested, and get_audit_data holds none of the keys comments_count,
\* last_commented_at and last_commented_by, whatever the other audit fields are.
C16_ZeroCommentsNoCommentKeys ==
    (ci.issue # <<>> /\ ci.issue[1].fail_attr = "none" /\ ci.issue[1].comments = 0) =>
      /\ comment_requests = 0
      /\ \A k \in 1..Len(ReturnedAuditData(calls)) :
            Range(DictKeys(ReturnedAuditData(calls)[k]))
              \cap {"comments_count", "last_commented_at", "last_commented_by"} = {}

\* the issue reports zero comments although the platform holds comments; the
\* other audit fields are in the dict returned
C16_Witness ==
    /\ ci.issue # <<>>
    /\ ci.issue[1].comments = 0 /\ ci.issue[1].comment_list # <<>>
    /\ Len(ReturnedAuditData(calls)) >= 2
    /\ Range(DictKeys(ReturnedAuditData(calls)[1])) = {"created_by", "closed_by", "audit_events"}
    /\ timeline_requests = 1

\* the audit fetch of the record under study was made on a backing issue
AuditFetched == ci.issue # <<>> /\ ci.audit_data_fetched

\* C17: a failure of the comment-list fetch is isolated to the comment fields:
\* created_by and closed_by stay populated when they were resolvable,
\* last_commented_at and last_commented_by are left out of get_audit_data, the
\* timeline is still fetched afterwards, and nothing is raised.
C17_CommentFailureIsolated ==
    (AuditFetched /\ ci.issue[1].fail_attr = "none"
       /\ ci.issue[1].comments > 0 /\ ci.issue[1].comments_fail) =>
      /\ ~SomeCallRaised
      /\ Truthy(ci.issue[1].user) => ci.created_by = ci.issue[1].user
      /\ Truthy(ci.issue[1].closed_by) => ci.closed_by = ci.issue[1].closed_by
      /\ ci.last_commented_at = None /\ ci.last_commented_by = None
      /\ timeline_requests = 1
      /\ \A k \in 1..Len(ReturnedAuditData(calls)) :
            Range(DictKeys(ReturnedAuditData(calls)[k]))
              \cap {"last_commented_at", "last_commented_by"} = {}

\* C18: a timeline fetch failure yields an empty event list: when requesting the
\* timeline fails, or iterating it fails after some events were read,
\* _fetch_audit_events returns an empty list and raises nothing, so audit_events
\* is absent from get_audit_data.  Stated for the failures of the classes the
\* handler of _fetch_audit_events names.
C18_TimelineFailureGivesNoEvents ==
    (AuditFetched /\ ci.issue[1].fail_attr = "none"
       /\ ci.issue[1].timeline_fail_after >= 0
       /\ ci.issue[1].fail_class \in CaughtClasses) =>
      /\ ~SomeCallRaised
      /\ ci.audit_events = <<>>
      /\ \A k \in 1..Len(ReturnedAuditData(calls)) :
            "audit_events" \notin Range(DictKeys(ReturnedAuditData(calls)[k]))

\* what created_by and closed_by hold once the attribute was read
Resolved(login) == IF Truthy(login) THEN login ELSE None

\* C19: any failure raised while the audit data of an issue is fetched is caught
\* inside _ensure_audit_data_fetched: no audit property read and no
\* get_audit_data call raises, the fields populated before the failure keep
\* their values and the fields after it keep their initial values.
C19_AnyAuditFailureCaught ==
    AuditFetched =>
      /\ ~SomeCallRaised
      /\ ci.issue[1].fail_attr = "user" =>
            /\ ci.created_by = None /\ ci.closed_by = None /\ ci.comments_count = 0
            /\ ci.last_commented_at = None /\ ci.last_commented_by = None
            /\ ci.audit_events = <<>>
      /\ ci.issue[1].fail_attr = "closed_by" =>
            /\ ci.created_by = Resolved(ci.issue[1].user)
            /\ ci.closed_by = None /\ ci.comments_count = 0
            /\ ci.last_commented_at = None /\ ci.last_commented_by = None
            /\ ci.audit_events = <<>>
      /\ ci.issue[1].fail_attr = "comments" =>
            /\ ci.created_by = Resolved(ci.issue[1].user)
            /\ ci.closed_by = Resolved(ci.issue[1].closed_by)
            /\ ci.comments_count = 0
            /\ ci.last_commented_at = None /\ ci.last_commented_by = None
            /\ ci.audit_events = <<>>

----------------------------------------------------------------------------
(* The stages of collect(), shared by Spec and SpecStore *)

\* one pass of the loop of _store_consolidated_issues (lines 304-319)
StoreIssue ==
    /\ pc = "store"
    /\ cursor <= Len(consolidated_issues)
    /\ LET key == consolidated_issues[cursor][1]
           item == consolidated_issues[cursor][2]
           stored == store_issue([issues |-> issues,
                                  invalid_issue_detected |-> invalid_issue_detected],
                                 key, item)
       IN  /\ issues' = stored.issues
           /\ invalid_issue_detected' = stored.invalid_issue_detected
           /\ skipped' = IF is_valid_issue(convert_to_issue_for_persist(item))
                         THEN skipped ELSE skipped \cup {key}
           /\ consolidated_issues' = [consolidated_issues EXCEPT ![cursor][2] = labels_cached(item)]
    /\ cursor' = cursor + 1
    /\ UNCHANGED <<pc, cfg_repositories, cfg_mining, remote_issues, output_dir, fetch_index,
                   lookup_failed, repository_issues, project_issues, sightings,
                   output_file, result, raised, remote_calls, unitVars>>
    /\ UNCHANGED boardVars

\* the output file is written with the audit data, _store_consolidated_issues
\* returns and collect() returns (lines 321-331 and 107-110); an exception that
\* leaves get_audit_data leaves collect() before the file is written
SaveAndReturn ==
    /\ pc = "store"
    /\ cursor > Len(consolidated_issues)
    /\ LET failing == FirstAuditRaise(issues, consolidated_issues)
       IN  IF failing = 0
           THEN /\ output_file' = <<issues_data(issues, consolidated_issues)>>
                /\ output_dir' = "written"
                /\ consolidated_issues' = AuditedAfterSave(issues, consolidated_issues)
                /\ result' = without_error(issues, invalid_issue_detected)
                /\ pc' = "done"
                /\ UNCHANGED raised
           ELSE /\ consolidated_issues' =
                      AuditedAfterSave(SubSeq(issues, 1, failing), consolidated_issues)
                /\ raised' = audit_fetch_raises(DictGet(consolidated_issues, issues[failing][1]))
                /\ pc' = "raised"
                /\ UNCHANGED <<output_file, output_dir, result>>
    /\ UNCHANGED <<cfg_repositories, cfg_mining, remote_issues, fetch_index, lookup_failed,
                   repository_issues, project_issues, cursor, sightings, issues,
                   invalid_issue_detected, skipped, remote_calls, unitVars>>
    /\ UNCHANGED boardVars

----------------------------------------------------------------------------
(* SpecStore: the persist stage of collect() on any consolidated issues *)

\* the records a test or a caller can hand to the persist stage, per key:
\* a clean record, a record with an error, a record linked to a board, a record
\* whose issue has no title, a record with no backing issue
StoreRecords(slot) ==
    LET repository_id == slot[1]
        full == CHOOSE a \in AuditWorlds : a.fail_attr = "none" /\ a.timeline_fail_after = -1
                                           /\ ~a.comments_fail /\ a.comments = 2
        clean == [ConsolidatedIssue(repository_id,
                                    <<GitHubIssue(slot[2], "T1", <<DOC_FEATURE_LABEL>>, full)>>)
                    EXCEPT !.issue_type = "FeatureIssue"]
    IN  { clean,
          [clean EXCEPT !.errors = << <<MULTIPLE_LABELS, MULTIPLE_LABELS_MESSAGE>> >>],
          update_with_project_data(clean, ProjectStatus("P1", "Todo")),
          [ConsolidatedIssue(repository_id, <<GitHubIssue(slot[2], "", <<DOC_USER_STORY_LABEL>>, NoAudit)>>)
              EXCEPT !.issue_type = "UserStoryIssue"],
          ConsolidatedIssue(repository_id, <<>>) }

\* the dicts of at most one record per slot, in any order of the slots
RECURSIVE StoreInputs(_)
StoreInputs(slots) ==
    IF slots = {} THEN {<<>>}
    ELSE {<<>>} \cup
         UNION { { <<<<KeyText(slot), c>>>> \o rest : c \in StoreRecords(slot),
                                                    rest \in StoreInputs(slots \ {slot}) }
                 : slot \in slots }

InitStore ==
    /\ pc = "store"
    /\ ConfigIdle /\ UnitIdle
    /\ output_dir = "clean" /\ fetch_index = 1 /\ lookup_failed = FALSE
    /\ repository_issues = <<>> /\ project_issues = <<>> /\ sightings = <<>>
    /\ consolidated_issues \in StoreInputs(IssueSlots)
    /\ cursor = 1
    /\ issues = <<>> /\ invalid_issue_detected = FALSE /\ skipped = {}
    /\ output_file = <<>> /\ result = "none" /\ raised = "none" /\ remote_calls = <<>>
    /\ BoardIdle

NextStore ==
    \/ StoreIssue
    \/ SaveAndReturn

SpecStore == InitStore /\ [][NextStore]_vars

----------------------------------------------------------------------------
(* Spec: one run of collect() (collector.py lines 74-110) *)

RepoA == RepositoryId(<<"o">>, <<"a">>)
RepoB == RepositoryId(<<"o">>, <<"b">>)

\* the configured repositories: none, one, two, and one configured twice
ConfiguredRepositories == { <<>>, <<RepoA>>, <<RepoA, RepoB>>, <<RepoB, RepoA>>, <<RepoA, RepoA>> }

\* the platform's issues: every issue has a number and a title; o/a#1 has one,
\* two or three of the supported labels, o/a#2 one or two, o/b#1 one
RemoteIssues ==
    LET full == CHOOSE a \in AuditWorlds : a.fail_attr = "none" /\ a.timeline_fail_after = -1
                                           /\ ~a.comments_fail /\ a.comments = 2
        a1 == { <<>>,
                <<GitHubIssue(1, "T1", <<DOC_USER_STORY_LABEL>>, full)>>,
                <<GitHubIssue(1, "T1", <<DOC_FEATURE_LABEL, DOC_USER_STORY_LABEL>>,
                              [full EXCEPT !.comments_fail = TRUE])>>,
                <<GitHubIssue(1, "T1", <<DOC_FUNCTIONALITY_LABEL, DOC_FEATURE_LABEL, DOC_USER_STORY_LABEL>>,
                              [full EXCEPT !.timeline_fail_after = 1])>> }
        a2 == { <<>>,
                <<GitHubIssue(2, "T2", <<"bug", DOC_FUNCTIONALITY_LABEL>>, NoAudit)>>,
                <<GitHubIssue(2, "T2", <<DOC_FUNCTIONALITY_LABEL, DOC_FEATURE_LABEL>>,
                              [full EXCEPT !.fail_attr = "closed_by"])>> }
        b1 == { <<>>, <<GitHubIssue(1, "T1", <<DOC_FEATURE_LABEL>>, NoAudit)>>,
                <<GitHubIssue(1, "T1", <<DOC_FEATURE_LABEL>>,
                              [full EXCEPT !.timeline_fail_after = 1,
                                           !.fail_class = "ConnectionError"])>> }
    IN  { << <<RepoA, i1 \o i2>>, <<RepoB, i3>> >> : i1 \in a1, i2 \in a2, i3 \in b1 }

Init ==
    /\ pc = "clean"
    /\ cfg_repositories \in ConfiguredRepositories
    /\ cfg_mining \in BOOLEAN
    /\ remote_issues \in RemoteIssues
    /\ output_dir \in {"absent", "stale"}
    /\ fetch_index = 1 /\ lookup_failed = FALSE
    /\ repository_issues = <<>>
    /\ issues = <<>> /\ invalid_issue_detected = FALSE /\ skipped = {}
    /\ output_file = <<>> /\ result = "none" /\ raised = "none" /\ remote_calls = <<>>
    /\ ConsolidationIdle /\ UnitIdle
    /\ BoardIdle

\* mutant: the output directory of the previous run is kept
Clean_keeps_directory ==
    /\ pc = "clean"
    /\ pc' = "fetch_issues"
    /\ UNCHANGED <<cfg_repositories, cfg_mining, remote_issues, output_dir, fetch_index,
                   lookup_failed, repository_issues, issues, invalid_issue_detected, skipped,
                   output_file, result, raised, remote_calls, consolidationVars, unitVars>>
    /\ UNCHANGED boardVars

\* _clean_output_directory (lines 118-120)
Clean ==
    /\ pc = "clean"
    /\ output_dir' = "clean"
    /\ pc' = "fetch_issues"
    /\ UNCHANGED <<cfg_repositories, cfg_mining, remote_issues, fetch_index, lookup_failed,
                   repository_issues, issues, invalid_issue_detected, skipped, output_file,
                   result, raised, remote_calls, consolidationVars, unitVars>>
    /\ UNCHANGED boardVars

\* repository.get_issues(state="all", labels=[label]) when the request succeeds
get_issues(repository_id, label) ==
    SelectSeq(DictGet(remote_issues, repository_id), LAMBDA i : In(label, i.labels))

\* issues[repository_id] after its three extends (lines 144-149)
RECURSIVE ExtendedByLabels(_, _, _)
ExtendedByLabels(issue_list, repository_id, label_list) ==
    IF label_list = <<>> THEN issue_list
    ELSE ExtendedByLabels(issue_list \o get_issues(repository_id, Head(label_list)),
                          repository_id, Tail(label_list))

\* mutant: the results accumulated for the earlier repositories are returned
lookup_none_return_accumulated(accumulated) == accumulated

\* `if repository is None: return {}` (lines 139-140 and 189-190): the value a
\* fetch returns, whatever it accumulated for the earlier repositories
lookup_none_return(accumulated) == <<>>

\* an entry of the history of remote calls: the fetch stage, the repository the
\* pass is for, the outcome of its calls, and the boards get_repository_projects
\* and get_project_issues answered with
RemoteCall(stage, repository_id, outcome, boards) ==
    [stage |-> stage, repository_id |-> repository_id, outcome |-> outcome, boards |-> boards]

\* one pass of the loop of _fetch_github_issues (lines 135-158).  The safe call
\* of get_repo gives None when the lookup fails; the safe call of get_issues gives
\* None when the request fails, and list.extend(None) raises TypeError.
FetchRepositoryIssues ==
    /\ pc = "fetch_issues"
    /\ fetch_index <= Len(cfg_repositories)
    /\ LET repository_id == cfg_repositories[fetch_index]
       IN  \/ /\ repository_issues' = lookup_none_return(repository_issues)
              /\ lookup_failed' = TRUE
              /\ pc' = "fetch_projects"
              /\ fetch_index' = 1
              /\ remote_calls' = Append(remote_calls,
                                        RemoteCall("issues", repository_id, "lookup_none", <<>>))
              /\ UNCHANGED raised
           \/ /\ repository_issues' =
                     DictPut(repository_issues, repository_id,
                             ExtendedByLabels(<<>>, repository_id, SUPPORTED_ISSUE_LABELS))
              /\ fetch_index' = fetch_index + 1
              /\ remote_calls' = Append(remote_calls,
                                        RemoteCall("issues", repository_id, "fetched", <<>>))
              /\ UNCHANGED <<pc, lookup_failed, raised>>
           \/ /\ raised' = "TypeError"              \* a get_issues request failed
              /\ pc' = "raised"
              /\ repository_issues' = DictPut(repository_issues, repository_id, <<>>)
              /\ remote_calls' = Append(remote_calls,
                                        RemoteCall("issues", repository_id, "get_issues_none", <<>>))
              /\ UNCHANGED <<fetch_index, lookup_failed>>
    /\ UNCHANGED <<cfg_repositories, cfg_mining, remote_issues, output_dir, issues,
                   invalid_issue_detected, skipped, output_file, result,
                   consolidationVars, unitVars>>
    /\ UNCHANGED boardVars

\* return issues (line 164)
FetchIssuesReturn ==
    /\ pc = "fetch_issues"
    /\ fetch_index > Len(cfg_repositories)
    /\ pc' = "fetch_projects"
    /\ fetch_index' = 1
    /\ UNCHANGED <<cfg_repositories, cfg_mining, remote_issues, output_dir, lookup_failed,
                   repository_issues, issues, invalid_issue_detected, skipped, output_file,
                   result, raised, remote_calls, consolidationVars, unitVars>>
    /\ UNCHANGED boardVars

\* mutant: the first repository is looked up before the switch is tested
FetchProjectsDisabled_after_lookup ==
    /\ pc = "fetch_projects"
    /\ ~cfg_mining
    /\ project_issues' = <<>>
    /\ pc' = "consolidate"
    /\ remote_calls' = IF cfg_repositories = <<>> THEN remote_calls
                       ELSE Append(remote_calls,
                                   RemoteCall("projects", cfg_repositories[1], "boards", <<>>))
    /\ UNCHANGED <<cfg_repositories, cfg_mining, remote_issues, output_dir, fetch_index,
                   lookup_failed, repository_issues, consolidated_issues, cursor, sightings,
                   issues, invalid_issue_detected, skipped, output_file, result, raised,
                   unitVars>>
    /\ UNCHANGED boardVars

\* project mining is not enabled: return {} (lines 172-174)
FetchProjectsDisabled ==
    /\ pc = "fetch_projects"
    /\ ~cfg_mining
    /\ project_issues' = <<>>
    /\ pc' = "consolidate"
    /\ UNCHANGED <<cfg_repositories, cfg_mining, remote_issues, output_dir, fetch_index,
                   lookup_failed, repository_issues, consolidated_issues, cursor, sightings,
                   issues, invalid_issue_detected, skipped, output_file, result, raised, remote_calls,
                   unitVars>>
    /\ UNCHANGED boardVars

\* what get_repository_projects and get_project_issues give for one repository:
\* a list of boards, each with the project issues loaded from its items
BoardAnswers ==
    LET p1a1 == ProjectIssue(<<"o">>, <<"a">>, 1, ProjectStatus("P1", "Todo"))
        p2a1 == ProjectIssue(<<"o">>, <<"a">>, 1, ProjectStatus("P2", "Done"))
        p2b1 == ProjectIssue(<<"o">>, <<"b">>, 1, ProjectStatus("P2", "Todo"))
        p2a7 == ProjectIssue(<<"o">>, <<"a">>, 7, ProjectStatus("P2", "Done"))
        \* an item of board P2 that is not an issue: its content has no field
        p2item == loads(<< <<"content", EmptyContent>> >>, GitHubProject("P2", <<>>)).result[1]
    IN  { <<>>,
          << <<p1a1>> >>,
          << <<p1a1>>, <<p2a1, p2b1>> >>,
          << <<>>, <<p2a7, p2a1>> >>,
          << <<p2item, p2a1>> >> }

\* what get_repository_projects gives when the GraphQL response is None: a
\* warning and an empty list of projects
NoResponse == <<>>

\* mutant: a project issue replaces the list stored under its key
RECURSIVE KeyedAppend_overwrite(_, _)
KeyedAppend_overwrite(all_project_issues, project_issue_list) ==
    IF project_issue_list = <<>> THEN all_project_issues
    ELSE KeyedAppend_overwrite(
             DictPut(all_project_issues, ProjectIssueKey(Head(project_issue_list)),
                     <<Head(project_issue_list)>>),
             Tail(project_issue_list))

\* the keyed append of the project issues of one board (lines 216-228)
RECURSIVE KeyedAppend(_, _)
KeyedAppend(all_project_issues, project_issue_list) ==
    IF project_issue_list = <<>> THEN all_project_issues
    ELSE LET key == ProjectIssueKey(Head(project_issue_list))
         IN  KeyedAppend(
                 IF ~DictHas(all_project_issues, key)
                 THEN DictPut(all_project_issues, key, <<Head(project_issue_list)>>)
                 ELSE DictPut(all_project_issues, key,
                              Append(DictGet(all_project_issues, key), Head(project_issue_list))),
                 Tail(project_issue_list))

\* the loop over the boards of one repository (lines 210-231)
RECURSIVE FetchedFromBoards(_, _)
FetchedFromBoards(all_project_issues, boards) ==
    IF boards = <<>> THEN all_project_issues
    ELSE FetchedFromBoards(KeyedAppend(all_project_issues, Head(boards)), Tail(boards))

\* one pass of the loop of _fetch_github_project_issues (lines 183-231).  The
\* safe calls give None when the call fails: a failed lookup returns {}; a failed
\* get_repository_projects leaves projects = None and `for project in projects`
\* raises TypeError; a failed get_project_issues leaves project_issues = None
\* and `for project_issue in project_issues` raises TypeError.
FetchRepositoryProjects ==
    /\ pc = "fetch_projects"
    /\ cfg_mining
    /\ fetch_index <= Len(cfg_repositories)
    /\ LET repository_id == cfg_repositories[fetch_index]
       IN  \/ /\ project_issues' = lookup_none_return(project_issues)
              /\ lookup_failed' = TRUE
              /\ pc' = "consolidate"
              /\ remote_calls' = Append(remote_calls,
                                        RemoteCall("projects", repository_id, "lookup_none", <<>>))
              /\ UNCHANGED <<fetch_index, raised>>
           \/ /\ \E boards \in BoardAnswers :
                    /\ project_issues' = FetchedFromBoards(project_issues, boards)
                    /\ remote_calls' = Append(remote_calls,
                                              RemoteCall("projects", repository_id, "boards", boards))
              /\ fetch_index' = fetch_index + 1
              /\ UNCHANGED <<pc, lookup_failed, raised>>
           \/ /\ project_issues' = FetchedFromBoards(project_issues, NoResponse)
              /\ remote_calls' = Append(remote_calls,
                                        RemoteCall("projects", repository_id, "no_response", NoResponse))
              /\ fetch_index' = fetch_index + 1
              /\ UNCHANGED <<pc, lookup_failed, raised>>
           \/ /\ raised' = "TypeError"               \* get_repository_projects failed
              /\ pc' = "raised"
              /\ remote_calls' = Append(remote_calls,
                                        RemoteCall("projects", repository_id, "projects_none", <<>>))
              /\ UNCHANGED <<project_issues, fetch_index, lookup_failed>>
           \/ /\ \E boards \in BoardAnswers : \E k \in 1..Len(boards) :
                    \* get_project_issues failed for the k-th board
                    /\ project_issues' = FetchedFromBoards(project_issues, SubSeq(boards, 1, k - 1))
                    /\ remote_calls' = Append(remote_calls,
                                              RemoteCall("projects", repository_id, "project_issues_none",
                                                         SubSeq(boards, 1, k - 1)))
              /\ raised' = "TypeError"
              /\ pc' = "raised"
              /\ UNCHANGED <<fetch_index, lookup_failed>>
    /\ UNCHANGED <<cfg_repositories, cfg_mining, remote_issues, output_dir,
                   repository_issues, consolidated_issues, cursor, sightings,
                   issues, invalid_issue_detected, skipped, output_file, result,
                   unitVars>>
    /\ UNCHANGED boardVars

\* return all_project_issues (line 233)
FetchProjectsReturn ==
    /\ pc = "fetch_projects"
    /\ cfg_mining
    /\ fetch_index > Len(cfg_repositories)
    /\ pc' = "consolidate"
    /\ UNCHANGED <<cfg_repositories, cfg_mining, remote_issues, output_dir, fetch_index,
                   lookup_failed, repository_issues, consolidationVars,
                   issues, invalid_issue_detected, skipped, output_file, result, raised, remote_calls,
                   unitVars>>
    /\ UNCHANGED boardVars

\* the consolidation stage of collect() (lines 97-99)
Consolidate ==
    /\ pc = "consolidate"
    /\ consolidated_issues' = _consolidate_issues_data(repository_issues, project_issues)
    /\ cursor' = 1
    /\ pc' = "store"
    /\ UNCHANGED <<cfg_repositories, cfg_mining, remote_issues, output_dir, fetch_index,
                   lookup_failed, repository_issues, project_issues, sightings,
                   issues, invalid_issue_detected, skipped, output_file, result, raised, remote_calls,
                   unitVars>>
    /\ UNCHANGED boardVars

Next ==
    \/ Clean
    \/ FetchRepositoryIssues
    \/ FetchIssuesReturn
    \/ FetchProjectsDisabled
    \/ FetchRepositoryProjects
    \/ FetchProjectsReturn
    \/ Consolidate
    \/ StoreIssue
    \/ SaveAndReturn

Spec == Init /\ [][Next]_vars

----------------------------------------------------------------------------
(* Claims on collect() and its persist stage *)

\* the entries of the "issues" object of the output file
OutputEntries == IF output_file = <<>> THEN <<>> ELSE output_file[1]

OutputKeys == Range(DictKeys(OutputEntries))

\* C7: with a valid configuration and a working filesystem collect() completes and
\* returns a boolean under every outcome of the remote calls: no exception escapes.
C7_NoExceptionEscapes ==
    /\ raised = "none"
    /\ pc # "raised"

FailsValidity(c) == c.repository_id = <<>> \/ title(c) = "" \/ number(c) = 0

\* C9: a record that fails validity is skipped: its key is not in the persisted
\* issues map, every valid record of the run is persisted under its own key, the
\* output file is written, and the run reports failure.
C9_InvalidRecordSkipped ==
    pc = "done" =>
      /\ output_file # <<>>
      /\ output_dir = "written"
      /\ Len(OutputEntries) = Cardinality(OutputKeys)
      /\ \A i \in 1..Len(consolidated_issues) :
           LET key == consolidated_issues[i][1]
               c == consolidated_issues[i][2]
           IN  IF FailsValidity(c)
               THEN key \notin OutputKeys /\ result = FALSE
               ELSE /\ key \in OutputKeys
                    /\ DictGet(OutputEntries, key).fields.title = title(c)
                    /\ DictGet(OutputEntries, key).fields.issue_number = number(c)

\* an invalid record came first, and two valid records after it were persisted
C9_Witness ==
    /\ pc = "done"
    /\ Len(consolidated_issues) = 3
    /\ FailsValidity(consolidated_issues[1][2])
    /\ consolidated_issues[1][1] \notin OutputKeys
    /\ Len(OutputEntries) = 2
    /\ result = FALSE

\* the supported labels an issue of the platform carries
SupportedLabelsOf(issue) == Range(issue.labels) \cap Range(SUPPORTED_ISSUE_LABELS)

\* C10: an issue fetched under more than one of the three supported labels is
\* still persisted, with "multiple_labels" in its error bag, every other issue of
\* the run gets no error, and the run returns false.
C10_MultipleLabelsStillPersisted ==
    pc = "done" =>
      \A r \in 1..Len(repository_issues) :
          LET repository_id == repository_issues[r][1]
              remote == DictGet(remote_issues, repository_id)
          IN  \A k \in 1..Len(remote) :
                  LET key == KeyText(<<repository_id, remote[k].number>>)
                  IN  /\ Cardinality(SupportedLabelsOf(remote[k])) >= 2 =>
                           /\ key \in OutputKeys
                           /\ DictHas(DictGet(OutputEntries, key).fields.errors, MULTIPLE_LABELS)
                           /\ result = FALSE
                      /\ Cardinality(SupportedLabelsOf(remote[k])) = 1 =>
                           /\ key \in OutputKeys
                           /\ DictGet(OutputEntries, key).fields.errors = <<>>

\* an issue with three labels persisted with the error beside an issue with one
\* label and no error
C10_Witness ==
    /\ pc = "done"
    /\ result = FALSE
    /\ \E i, j \in 1..Len(OutputEntries) :
         /\ OutputEntries[i][2].fields.labels =
               <<DOC_FUNCTIONALITY_LABEL, DOC_FEATURE_LABEL, DOC_USER_STORY_LABEL>>
         /\ DictHas(OutputEntries[i][2].fields.errors, MULTIPLE_LABELS)
         /\ OutputEntries[j][2].fields.errors = <<>>

----------------------------------------------------------------------------
(* Claims on the fetch stages of collect() *)

\* the entries of the history of remote calls that belong to one fetch stage
CallsOf(stage) == SelectSeq(remote_calls, LAMBDA call : call.stage = stage)

\* C11: when the repository lookup returns nothing for a configured repository,
\* whatever its position in the list, the fetch that made the lookup returns
\* an empty mapping: what it accumulated for earlier repositories is discarded
\* and it queries no later repository.  This holds of _fetch_github_issues and
\* of _fetch_github_project_issues.
C11_LookupNoneEmptiesTheFetch ==
    \A i \in 1..Len(remote_calls) :
        remote_calls[i].outcome = "lookup_none" =>
          /\ \A j \in (i + 1)..Len(remote_calls) : remote_calls[j].stage # remote_calls[i].stage
          /\ remote_calls[i].stage = "issues" => repository_issues = <<>>
          /\ remote_calls[i].stage = "projects" => project_issues = <<>>

\* both fetches found issues for the first repository and met a failed lookup
\* for the second one
C11_Witness ==
    /\ pc = "done"
    /\ Len(cfg_repositories) = 2
    /\ Len(CallsOf("issues")) = 2 /\ Len(CallsOf("projects")) = 2
    /\ CallsOf("issues")[1].outcome = "fetched"
    /\ DictGet(remote_issues, CallsOf("issues")[1].repository_id) # <<>>
    /\ CallsOf("issues")[2].outcome = "lookup_none"
    /\ CallsOf("projects")[1].outcome = "boards"
    /\ \E b \in 1..Len(CallsOf("projects")[1].boards) : CallsOf("projects")[1].boards[b] # <<>>
    /\ CallsOf("projects")[2].outcome = "lookup_none"
    /\ repository_issues = <<>> /\ project_issues = <<>>

\* the concatenation of a list of lists
RECURSIVE Flatten(_)
Flatten(lists) == IF lists = <<>> THEN <<>> ELSE Head(lists) \o Flatten(Tail(lists))

\* the project issues the boards delivered so far, in the order the boards were
\* processed
DeliveredProjectIssues ==
    Flatten(Flatten([i \in 1..Len(CallsOf("projects")) |-> CallsOf("projects")[i].boards]))

\* the project fetch returned all_project_issues (line 233)
ProjectFetchReturned ==
    /\ cfg_mining
    /\ pc \in {"consolidate", "store", "done"}
    /\ \A i \in 1..Len(remote_calls) : remote_calls[i].outcome # "lookup_none"
                                           \/ remote_calls[i].stage # "projects"

\* the boards of an entry list, by title
BoardsOf(project_issue_list) ==
    {project_issue_list[i].project_status.project_title : i \in 1..Len(project_issue_list)}

\* C12: after _fetch_github_project_issues the list under each composite key
\* holds one entry per project board on which the issue appears and never two
\* entries for the same board, for every configuration.
C12_OneEntryPerBoard ==
    ProjectFetchReturned =>
      \A i \in 1..Len(project_issues) :
          LET key == project_issues[i][1]
              list == project_issues[i][2]
              delivered == SelectSeq(DeliveredProjectIssues,
                                     LAMBDA project_issue : ProjectIssueKey(project_issue) = key)
          IN  /\ BoardsOf(list) = BoardsOf(delivered)
              /\ Len(list) = Cardinality(BoardsOf(list))

\* C13: _fetch_github_project_issues appends and never overwrites: the list under
\* a composite key holds every project issue with that key that the boards
\* delivered, in the order the boards were processed, and the map has exactly
\* one key per distinct composite key delivered.
C13_AppendedInBoardOrder ==
    (cfg_mining /\ \A i \in 1..Len(remote_calls) : remote_calls[i].outcome # "lookup_none"
                                                     \/ remote_calls[i].stage # "projects") =>
      /\ Len(project_issues) = Cardinality(Range(DictKeys(project_issues)))
      /\ Range(DictKeys(project_issues)) =
            {ProjectIssueKey(DeliveredProjectIssues[k]) : k \in 1..Len(DeliveredProjectIssues)}
      /\ \A i \in 1..Len(project_issues) :
            project_issues[i][2] =
              SelectSeq(DeliveredProjectIssues,
                        LAMBDA project_issue : ProjectIssueKey(project_issue) = project_issues[i][1])

\* two repositories were processed; a key holds entries of two boards of the first
\* and of a board of the second, beside another key
C13_Witness ==
    /\ ProjectFetchReturned
    /\ Len(cfg_repositories) = 2 /\ cfg_repositories[1] # cfg_repositories[2]
    /\ Len(CallsOf("projects")) = 2
    /\ Len(project_issues) >= 2
    /\ \E i \in 1..Len(project_issues) :
         /\ Len(project_issues[i][2]) = 3
         /\ project_issues[i][2][1].project_status.project_title
              # project_issues[i][2][2].project_status.project_title

\* C14: when board or field-option resolution fails for one configured
\* repository (a None response, or a failed get_repository_projects call), the
\* project fetch takes that repository to have no projects, raises nothing and
\* goes on to every other configured repository.
C14_ResolutionFailureIsolated ==
    \A i \in 1..Len(remote_calls) :
        (remote_calls[i].stage = "projects"
           /\ remote_calls[i].outcome \in {"no_response", "projects_none"}) =>
          /\ raised = "none"
          /\ remote_calls[i].boards = <<>>
          /\ ProjectFetchReturned => Len(CallsOf("projects")) = Len(cfg_repositories)

----------------------------------------------------------------------------
(* Claim on the audit data in the output file *)

\* the audit fields of a record that are non-empty, as the dict of their values
\* in the order get_audit_data adds them
NonEmptyAuditFields(c) ==
    LET Field(name) ==
            CASE name = "created_by" -> c.created_by
              [] name = "closed_by" -> c.closed_by
              [] name = "comments_count" -> c.comments_count
              [] name = "last_commented_at" -> c.last_commented_at
              [] name = "last_commented_by" -> c.last_commented_by
              [] name = "audit_events" -> c.audit_events
        NonEmpty(name) ==
            CASE name = "comments_count" -> c.comments_count > 0
              [] name = "audit_events" -> c.audit_events # <<>>
              [] OTHER -> Field(name) # None /\ Field(name) # ""
        order == <<"created_by", "closed_by", "comments_count",
                   "last_commented_at", "last_commented_by", "audit_events">>
        kept == SelectSeq(order, NonEmpty)
    IN  [k \in 1..Len(kept) |-> <<kept[k], Field(kept[k])>>]

\* C20: get_audit_data returns a key for an audit field if and only if the field
\* is non-empty, each with the field's value, and the entry of a record in the
\* output file carries exactly those audit keys on top of its base fields.
C20_AuditKeysOfNonEmptyFields ==
    pc = "done" =>
      \A i \in 1..Len(OutputEntries) :
          LET key == OutputEntries[i][1]
              c == DictGet(consolidated_issues, key)
          IN  /\ DictHas(consolidated_issues, key)
              /\ c.audit_data_fetched
              /\ OutputEntries[i][2].audit = NonEmptyAuditFields(c)
              /\ OutputEntries[i][2].fields = convert_to_issue_for_persist(c)

\* the file holds an entry without the last-comment keys, an entry whose only
\* audit key is created_by and an entry without any audit key
C20_Witness ==
    /\ pc = "done"
    /\ \E i, j, k \in 1..Len(OutputEntries) :
         /\ Range(DictKeys(OutputEntries[i][2].audit))
              = {"created_by", "closed_by", "comments_count", "audit_events"}
         /\ DictKeys(OutputEntries[j][2].audit) = <<"created_by">>
         /\ OutputEntries[k][2].audit = <<>>

----------------------------------------------------------------------------
(* SpecParse: _parse_timeline_event on any timeline events, one after another *)

\* timeline events as the platform's client hands them over: of a relevant kind,
\* of another kind or of none, with or without an actor, with all attributes or
\* without some of them, the event-specific object set or empty
TimelineEvents ==
    LET kinds == relevant_events \cup {"commented", "", None}
        attr_sets == { AllEventAttrs,
                       AllEventAttrs \ {"label", "assignee", "milestone"},
                       AllEventAttrs \ {"actor", "created_at"},
                       AllEventAttrs \ {"event"} }
        set == { TimelineEvent(kind, actor, attrs) :
                    kind \in kinds, actor \in {"alice", None}, attrs \in attr_sets }
    IN  set \cup { [e EXCEPT !.label = None, !.assignee = None, !.milestone = None] :
                     e \in {x \in set : x.attrs = AllEventAttrs /\ x.actor = "alice"} }

InitParse ==
    /\ pc = "parse"
    /\ ConfigIdle /\ RunIdle /\ ConsolidationIdle /\ UnitIdle
    /\ BoardIdle

\* _parse_timeline_event(event) is called; the event and the value returned are
\* kept in the history
ParseTimelineEvent ==
    /\ pc = "parse"
    /\ Len(calls) < MaxParsed
    /\ \E event \in TimelineEvents :
         calls' = Append(calls, <<event, _parse_timeline_event(event)>>)
    /\ UNCHANGED <<pc, ci, comment_requests, timeline_requests,
                   configVars, runVars, consolidationVars>>
    /\ UNCHANGED boardVars

NextParse == ParseTimelineEvent

SpecParse == InitParse /\ [][NextParse]_vars

\* the event-specific field of an event kind, None for a kind without one
SpecificField(kind) ==
    CASE kind \in {"labeled", "unlabeled"} -> "label"
      [] kind \in {"assigned", "unassigned"} -> "assignee"
      [] kind \in {"milestoned", "demilestoned"} -> "milestone"
      [] OTHER -> None

\* the event has a kind
HasKind(event) == "event" \in event.attrs /\ event.event # None /\ event.event # ""

\* C21: _parse_timeline_event returns a structured event with action, timestamp
\* and the actor if present for each of the eight relevant kinds, carrying label
\* for labeled/unlabeled, assignee for assigned/unassigned, milestone for
\* milestoned/demilestoned and no event-specific field for reopened/closed; for
\* every other kind, and for an event with no kind, it returns no result.
C21_StructuredEventPerKind ==
    pc = "parse" =>
      \A n \in 1..Len(calls) :
          LET event == calls[n][1]
              returned == calls[n][2]
              has_actor == "actor" \in event.attrs /\ event.actor # None
          IN  IF HasKind(event) /\ event.event \in relevant_events
              THEN /\ Len(returned) = 1
                   /\ Range(DictKeys(returned[1]))
                        = {"action", "timestamp"}
                          \cup (IF has_actor THEN {"actor"} ELSE {})
                          \cup ({SpecificField(event.event)} \ {None})
                   /\ DictGet(returned[1], "action") = event.event
                   /\ has_actor => DictGet(returned[1], "actor") = event.actor
              ELSE returned = <<>>

\* C25: when project-board mining is disabled, _fetch_github_project_issues
\* returns an empty mapping without any repository lookup or GraphQL request, and
\* at the end of the run every consolidated record has linked_to_project false
\* and an empty project-status list.
C25_MiningDisabledNoProjectData ==
    ~cfg_mining =>
      /\ CallsOf("projects") = <<>>
      /\ project_issues = <<>>
      /\ \A i \in 1..Len(consolidated_issues) :
            /\ ~consolidated_issues[i][2].linked_to_project
            /\ consolidated_issues[i][2].project_issue_statuses = <<>>
      /\ \A i \in 1..Len(OutputEntries) :
            /\ ~OutputEntries[i][2].fields.linked_to_project
            /\ OutputEntries[i][2].fields.project_statuses = <<>>

\* a run with mining disabled fetched issues of two repositories and wrote them
C25_Witness ==
    /\ pc = "done"
    /\ ~cfg_mining
    /\ Len(CallsOf("issues")) >= 2
    /\ Len(consolidated_issues) >= 2
    /\ Len(OutputEntries) >= 2

\* the composite keys of the repository issues fetched
RepositoryIssueKeys ==
    UNION { { RepositoryIssueKey(repository_issues[r][1], repository_issue) :
                repository_issue \in Range(repository_issues[r][2]) } :
            r \in 1..Len(repository_issues) }

\* C28: consolidation creates records from repository issues only: a composite
\* key that occurs in the project-issues map but for which no repository issue
\* was fetched produces no ConsolidatedIssue and no persisted record, and
\* _consolidate_issues_data leaves both input maps unchanged.
C28_RecordsFromRepositoryIssuesOnly ==
    /\ [](pc \in {"store", "done"} =>
            /\ Range(DictKeys(consolidated_issues)) = RepositoryIssueKeys
            /\ \A key \in Range(DictKeys(project_issues)) \ RepositoryIssueKeys :
                  /\ ~DictHas(consolidated_issues, key)
                  /\ ~DictHas(issues, key)
                  /\ key \notin OutputKeys)
    /\ [][ (pc \in {"consolidate", "store"}) =>
              (repository_issues' = repository_issues /\ project_issues' = project_issues)
         ]_vars

\* a run was completed in which the project-issues map held a key of an issue
\* that no repository fetch returned, beside the key of a fetched issue that was
\* linked to its board
C28_Witness ==
    /\ pc = "done"
    /\ \E key \in Range(DictKeys(project_issues)) : key \notin RepositoryIssueKeys
    /\ \E i \in 1..Len(consolidated_issues) : consolidated_issues[i][2].linked_to_project
    /\ OutputEntries # <<>>

----------------------------------------------------------------------------
(* SpecBoard: GitHubProjects.get_project_issues on one board, page by page *)

\* a single-select field value of an item node, and a field value of another type
SingleSelectValue(name) ==
    << <<"__typename", "ProjectV2ItemFieldSingleSelectValue">>, <<"name", name>> >>

TextValue == << <<"__typename", "ProjectV2ItemFieldTextValue">> >>

\* an item node: its content, when the node has one, and its field values
ItemNode(content, field_values) ==
    content \o << <<"fieldValues", << <<"nodes", field_values>> >> >> >>

\* the boards under study: one with the four vocabularies, sharing a value between
\* Priority and Size and another between Size and MoSCoW, and one with Status only
BoardProjects ==
    { GitHubProject("P1", << <<"Status", <<"Todo", "Done">> >>,
                             <<"Priority", <<"High", "Low">> >>,
                             <<"Size", <<"High", "S">> >>,
                             <<"MoSCoW", <<"S", "Must">> >> >>),
      GitHubProject("P2", << <<"Status", <<"Done">> >> >>) }

\* item nodes as the item query returns them: issues with field values, an item
\* whose content is not an issue (empty content), an item with a null content, an
\* item with no content key and an issue content cut after its number
ItemNodes ==
    [ a1 |-> ItemNode(<< <<"content", IssueContent(<<"o">>, <<"a">>, 1)>> >>,
                      <<SingleSelectValue("Todo"), TextValue, SingleSelectValue("High"),
                        SingleSelectValue("Done")>>),
      b2 |-> ItemNode(<< <<"content", IssueContent(<<"o">>, <<"b">>, 2)>> >>,
                      <<SingleSelectValue("S"), SingleSelectValue("Other"),
                        SingleSelectValue("Must")>>),
      a3 |-> << <<"content", IssueContent(<<"o">>, <<"a">>, 3)>> >>,
      empty |-> ItemNode(<< <<"content", EmptyContent>> >>, <<SingleSelectValue("Done")>>),
      null |-> ItemNode(<< <<"content", NullContent>> >>, <<>>),
      absent |-> ItemNode(<<>>, <<SingleSelectValue("Todo")>>),
      cut |-> ItemNode(<< <<"content", CutContent(4)>> >>, <<>>) ]

\* the answers of the platform to an item query: <<page>>, or <<>> for a request
\* that gave no usable response
ItemPages ==
    LET node_lists == { <<>>, <<ItemNodes.a1>>, <<ItemNodes.a1, ItemNodes.absent, ItemNodes.b2>>,
                        <<ItemNodes.empty, ItemNodes.a3>>, <<ItemNodes.null, ItemNodes.a1>>,
                        <<ItemNodes.cut, ItemNodes.b2>> }
    IN  { <<[nodes |-> l, hasNextPage |-> h]>> : l \in node_lists, h \in BOOLEAN } \cup {<<>>}

ResponseLists == UNION { [1..n -> ItemPages] : n \in 0..MaxPages }

\* the answer to the request of page n; a request past the answers the platform
\* holds gives no usable response
ResponseAt(answers, n) == IF n <= Len(answers) THEN answers[n] ELSE <<>>

\* the nodes of one page passed to ProjectIssue().loads in turn: the project
\* issues loaded, the calls made and the exception that ended the page, if any
PageLoaded(nodes, project) ==
    LET outcome == [i \in 1..Len(nodes) |-> loads(nodes[i], project)]
        raising == {i \in 1..Len(nodes) : outcome[i].raised # "none"}
        last == IF raising = {} THEN Len(nodes)
                ELSE CHOOSE i \in raising : \A j \in raising : i <= j
    IN  [ raised |-> IF raising = {} THEN "none" ELSE outcome[last].raised,
          loaded |-> Flatten([i \in 1..last |-> outcome[i].result]),
          calls |-> [i \in 1..last |-> <<nodes[i], outcome[i]>>] ]

InitBoard ==
    /\ pc = "paging"
    /\ ConfigIdle /\ RunIdle /\ ConsolidationIdle /\ UnitIdle
    /\ \E p \in BoardProjects : board = <<p>>
    /\ responses \in ResponseLists
    /\ loaded = <<>>

\* one turn of the loop of get_project_issues: the page after the cursor is
\* requested; without a usable response the results accumulated so far are
\* returned; otherwise the nodes are loaded and the loop goes on while the page
\* says hasNextPage
RequestPage ==
    /\ pc = "paging"
    /\ LET response == ResponseAt(responses, cursor)
       IN  IF response = <<>>
           THEN /\ pc' = "returned"
                /\ UNCHANGED <<loaded, calls, cursor, raised>>
           ELSE LET page == PageLoaded(response[1].nodes, board[1])
                IN  /\ loaded' = loaded \o page.loaded
                    /\ calls' = calls \o page.calls
                    /\ raised' = page.raised
                    /\ pc' = IF page.raised # "none" THEN "raised"
                             ELSE IF response[1].hasNextPage THEN "paging" ELSE "returned"
                    /\ cursor' = IF page.raised = "none" /\ response[1].hasNextPage
                                 THEN cursor + 1 ELSE cursor
    /\ UNCHANGED <<board, responses, ci, comment_requests, timeline_requests,
                   configVars, output_dir, fetch_index, lookup_failed, repository_issues,
                   issues, invalid_issue_detected, skipped, output_file, result,
                   remote_calls, project_issues, consolidated_issues, sightings>>

NextBoard == RequestPage

SpecBoard == InitBoard /\ [][NextBoard]_vars

\* the first request that ends the loop: its response is unusable or its page
\* says there is no next page
StopPage ==
    CHOOSE n \in 1..(Len(responses) + 1) :
        /\ ResponseAt(responses, n) = <<>> \/ ~ResponseAt(responses, n)[1].hasNextPage
        /\ \A m \in 1..(n - 1) :
              ResponseAt(responses, m) # <<>> /\ ResponseAt(responses, m)[1].hasNextPage

\* the pages received up to the end of the loop
PagesReceived ==
    LET last == IF ResponseAt(responses, StopPage) = <<>> THEN StopPage - 1 ELSE StopPage
    IN  [n \in 1..last |-> responses[n][1]]

\* the issue numbers of the nodes of a page that carry a content, in node order
\* (0 for a content without a number)
ParsableNumbers(page) ==
    LET parsable == SelectSeq(page.nodes, LAMBDA node : DictHas(node, "content"))
    IN  [i \in 1..Len(parsable) |->
            LET content == DictGet(parsable[i], "content")
            IN  IF content # <<>> /\ DictHas(content[1], "number")
                THEN DictGet(content[1], "number") ELSE 0]

\* some node of the pages received has a null content
NullContentReceived ==
    \E n \in 1..Len(PagesReceived) : \E i \in 1..Len(PagesReceived[n].nodes) :
        /\ DictHas(PagesReceived[n].nodes[i], "content")
        /\ DictGet(PagesReceived[n].nodes[i], "content") = NullContent

\* C22: get_project_issues follows the cursor page by page and returns the
\* concatenation, in page order, of the parsed nodes of every page up to and
\* including the first page whose hasNextPage is false, so the count returned is
\* the sum of the per-page counts of parsable nodes; the loop stops at the first
\* page with hasNextPage false or at the first unusable response, and then it
\* returns the results accumulated so far (none if it was the first request) and
\* raises nothing.
C22_PagesConcatenatedInOrder ==
    /\ pc = "returned" =>
          /\ cursor = StopPage
          /\ raised = "none"
          /\ [i \in 1..Len(loaded) |-> loaded[i].number]
                = Flatten([n \in 1..Len(PagesReceived) |-> ParsableNumbers(PagesReceived[n])])
          /\ ResponseAt(responses, 1) = <<>> => loaded = <<>>
    /\ pc = "raised" => NullContentReceived
    /\ pc = "paging" => cursor <= StopPage

\* two pages with parsable and unparsable nodes were received, the third request
\* got no usable response and the results of the two pages were returned
C22_Witness ==
    /\ pc = "returned"
    /\ cursor = 3 /\ ResponseAt(responses, 3) = <<>> /\ Len(responses) = 3
    /\ Len(loaded) = 4
    /\ \E n \in 1..2 : \E i \in 1..Len(responses[n][1].nodes) :
          ~DictHas(responses[n][1].nodes[i], "content")

\* the nodes of the pages received, in page and node order
NodesReceived == Flatten([n \in 1..Len(PagesReceived) |-> PagesReceived[n].nodes])

\* C24: a malformed project-item node is isolated to that node: for a node with
\* no content key ProjectIssue.loads returns no result and the node adds no entry
\* to the project issues, loads raises nothing for any node shape (content
\* missing, null or empty), and the other nodes of the same page are still loaded.
C24_MalformedNodeIsolated ==
    /\ \A n \in 1..Len(calls) :
          /\ calls[n][2].raised = "none"
          /\ ~DictHas(calls[n][1], "content") => calls[n][2].result = <<>>
    /\ pc # "raised"
    /\ pc = "returned" =>
          /\ [n \in 1..Len(calls) |-> calls[n][1]] = NodesReceived
          /\ loaded = Flatten([n \in 1..Len(calls) |-> calls[n][2].result])

\* the fields of a ProjectStatus that loads assigns, in the order it tests their
\* vocabularies
StatusFieldOrder == <<"Status", "Priority", "Size", "MoSCoW">>

\* the value of the k-th of these fields
StatusField(project_status, k) ==
    CASE k = 1 -> project_status.status
      [] k = 2 -> project_status.priority
      [] k = 3 -> project_status.size
      [] k = 4 -> project_status.moscow

\* the field a single-select value goes to on a board: the first whose vocabulary
\* contains it, 0 when none does
FieldOfValue(project, value) ==
    LET containing == {k \in 1..4 : In(value, FieldOptions(project, StatusFieldOrder[k]))}
    IN  IF containing = {} THEN 0 ELSE CHOOSE k \in containing : \A m \in containing : k <= m

\* C30: ProjectIssue.loads sets project_title to the board's title and assigns
\* each single-select field value of the node to at most one of status, priority,
\* size, moscow: the field of the first vocabulary, in the order Status, Priority,
\* Size, MoSCoW, that contains the value; a value contained in no vocabulary
\* changes nothing, a field whose vocabulary matches no value stays unset, and
\* when several values match the same field the last one in node order is kept.
C30_FieldValuesByVocabulary ==
    pc \in {"paging", "returned", "raised"} =>
      \A n \in 1..Len(calls) :
          calls[n][2].result # <<>> =>
            LET project_status == calls[n][2].result[1].project_status
                values == FieldTypes(calls[n][1])
            IN  /\ project_status.project_title = board[1].title
                /\ \A k \in 1..4 :
                      LET assigned == SelectSeq(values,
                                          LAMBDA v : FieldOfValue(board[1], v) = k)
                      IN  StatusField(project_status, k)
                            = IF assigned = <<>> THEN Unset ELSE assigned[Len(assigned)]

\* on a board with the four vocabularies one node had two Status values and a
\* value found in Priority and in Size; another had a value found in Size and in
\* MoSCoW, a value of no vocabulary and a MoSCoW value
C30_Witness ==
    /\ pc = "returned"
    /\ \E n, m \in 1..Len(calls) :
          /\ FieldTypes(calls[n][1]) = <<"Todo", "High", "Done">>
          /\ calls[n][2].result # <<>>
          /\ calls[n][2].result[1].project_status
               = [ProjectStatus("P1", "Done") EXCEPT !.priority = "High"]
          /\ FieldTypes(calls[m][1]) = <<"S", "Other", "Must">>
          /\ calls[m][2].result # <<>>
          /\ calls[m][2].result[1].project_status
               = [ProjectStatus("P1", Unset) EXCEPT !.size = "S", !.moscow = "Must"]

----------------------------------------------------------------------------
(* Claims on the run as a whole *)

\* C29: every entry of the project-issues map comes from a node that carries
\* issue content: each stored ProjectIssue has a non-empty organization name, a
\* non-empty repository name and an issue number >= 1, so no key of the map is
\* built from the default values ("", "", 0) of ProjectIssue.
C29_NoEntryFromDefaults ==
    \A i \in 1..Len(project_issues) :
        /\ project_issues[i][1] # ProjectIssueKey(NewProjectIssue)
        /\ \A j \in 1..Len(project_issues[i][2]) :
              LET project_issue == project_issues[i][2][j]
              IN  /\ project_issue.organization_name # <<>>
                  /\ project_issue.repository_name # <<>>
                  /\ project_issue.number >= 1


\* the place of a stage in collect() (lines 80-105); 6 is the return
StageIndex(stage) ==
    CASE stage = "clean" -> 1
      [] stage = "fetch_issues" -> 2
      [] stage = "fetch_projects" -> 3
      [] stage = "consolidate" -> 4
      [] stage = "store" -> 5
      [] stage = "done" -> 6

\* C23: within one collect() run the stages execute once each and in the order
\* clean, fetch repository issues, fetch project issues, consolidate (given
\* exactly the two fetch results), persist; no remote fetch starts before the
\* output directory has been recreated empty, and the output file is written
\* once, in the persist stage only.
C23_StagesInOrder ==
    [][ /\ pc' # pc => pc' = "raised" \/ StageIndex(pc') = StageIndex(pc) + 1
        /\ remote_calls' # remote_calls =>
              /\ pc \in {"fetch_issues", "fetch_projects"}
              /\ output_dir = "clean" /\ output_file = <<>>
        /\ output_dir' # output_dir =>
              \/ pc = "clean" /\ output_dir' = "clean"
              \/ pc = "store" /\ output_dir' = "written"
        /\ output_file' # output_file =>
              pc = "store" /\ output_file = <<>> /\ pc' = "done"
        /\ pc = "consolidate" /\ pc' # pc =>
              consolidated_issues' = _consolidate_issues_data(repository_issues, project_issues)
        /\ repository_issues' # repository_issues => pc = "fetch_issues"
        /\ project_issues' # project_issues => pc = "fetch_projects"
      ]_vars

\* a run that went through every stage: both fetches made remote calls and gave
\* results, records were consolidated and the file was written
C23_Witness ==
    /\ pc = "done"
    /\ output_dir = "written" /\ output_file # <<>>
    /\ CallsOf("issues") # <<>> /\ CallsOf("projects") # <<>>
    /\ repository_issues # <<>> /\ project_issues # <<>>
    /\ consolidated_issues # <<>>

----------------------------------------------------------------------------
(* SpecRecord: the labels and the persistable record of one ConsolidatedIssue, *)
(* read in any order with its audit data and its project data                 *)

\* records of the four kinds, with no label, one label or two labels, with and
\* without audit answers, with and without an error, and one without a backing
\* issue
RecordsUnderStudy ==
    LET full == CHOOSE a \in AuditWorlds : a.fail_attr = "none" /\ a.timeline_fail_after = -1
                                           /\ ~a.comments_fail /\ a.comments = 2
        Consolidated(label_list, audit) ==
            DictGet(consolidate_issue(<<>>, RepoA, GitHubIssue(1, "T1", label_list, audit)),
                    RepositoryIssueKey(RepoA, GitHubIssue(1, "T1", label_list, audit)))
    IN  { ConsolidatedIssue(RepoA, <<>>),
          ConsolidatedIssue(RepoA, <<GitHubIssue(1, "T1", <<>>, NoAudit)>>),
          ConsolidatedIssue(RepoA, <<GitHubIssue(1, "T1", <<>>, full)>>),
          ConsolidatedIssue(RepoA, <<GitHubIssue(1, "T1", <<"bug", "enhancement">>, NoAudit)>>),
          Consolidated(<<DOC_FEATURE_LABEL>>, full),
          Consolidated(<<"bug", DOC_USER_STORY_LABEL>>, NoAudit),
          Consolidated(<<DOC_FUNCTIONALITY_LABEL>>, full),
          [Consolidated(<<DOC_FEATURE_LABEL>>, NoAudit)
              EXCEPT !.errors = << <<MULTIPLE_LABELS, MULTIPLE_LABELS_MESSAGE>> >>] }

InitRecord ==
    /\ pc = "issue"
    /\ ConfigIdle /\ RunIdle /\ ConsolidationIdle
    /\ ci \in RecordsUnderStudy
    /\ calls = <<>>
    /\ comment_requests = 0
    /\ timeline_requests = 0
    /\ BoardIdle

\* the labels property is read: whether the access went through the label
\* collection of the backing issue, and the list returned, are kept in the history
ReadLabels ==
    /\ pc = "issue"
    /\ Len(calls) < MaxCalls
    /\ calls' = Append(calls, <<"labels", labels_traversed(ci), labels(ci)>>)
    /\ ci' = labels_cached(ci)
    /\ UNCHANGED <<pc, comment_requests, timeline_requests,
                   configVars, runVars, consolidationVars, boardVars>>

\* convert_to_issue_for_persist() is called; it reads the labels property
\* (line 369) and none of the audit properties
ConvertToIssueForPersist ==
    /\ pc = "issue"
    /\ Len(calls) < MaxCalls
    /\ calls' = Append(calls, <<"convert_to_issue_for_persist", labels_traversed(ci),
                                convert_to_issue_for_persist(ci)>>)
    /\ ci' = labels_cached(ci)
    /\ UNCHANGED <<pc, comment_requests, timeline_requests,
                   configVars, runVars, consolidationVars, boardVars>>

NextRecord ==
    \/ ReadLabels
    \/ ConvertToIssueForPersist
    \/ GetAuditData
    \/ UpdateWithProjectData

SpecRecord == InitRecord /\ [][NextRecord]_vars

\* the accesses to the labels property so far: reads of the property and
\* conversions
LabelAccesses == SelectSeq(calls, LAMBDA call : call[1] \in {"labels", "convert_to_issue_for_persist"})

\* the list of label names an access returned
LabelsReturned(call) == IF call[1] = "labels" THEN call[3] ELSE call[3].labels

\* C26: the label set of a ConsolidatedIssue is cached on first access: over any
\* sequence of accesses to labels, the label collection of the backing issue is
\* traversed at most once, for every label set including the empty one, and
\* every access returns the same list of label names.
C26_LabelsTraversedOnce ==
    pc = "issue" =>
      /\ Cardinality({n \in 1..Len(LabelAccesses) : LabelAccesses[n][2]}) <= 1
      /\ \A n, m \in 1..Len(LabelAccesses) :
            LabelsReturned(LabelAccesses[n]) = LabelsReturned(LabelAccesses[m])

\* the audit fields of a record and its fetched flag
AuditState(c) ==
    <<c.audit_data_fetched, c.created_by, c.closed_by, c.comments_count,
      c.last_commented_at, c.last_commented_by, c.audit_events>>

\* the fields an Issue record is made of
BaseFields ==
    {"kind", "repository_id", "title", "issue_number", "state", "created_at", "updated_at",
     "closed_at", "html_url", "body", "labels", "linked_to_project", "project_statuses",
     "errors"}

\* C27: convert_to_issue_for_persist builds the record kind named by issue_type
\* and copies repository id, title, number, state, the three timestamps, URL,
\* body, labels, linked_to_project, the project-status list and the error bag; it
\* includes no audit field and leaves the audit state unchanged: it requests
\* neither comments nor timeline and does not set the fetched flag.
C27_ConvertCopiesBaseFieldsOnly ==
    [][ (/\ pc = "issue"
         /\ Len(calls') = Len(calls) + 1
         /\ calls'[Len(calls')][1] = "convert_to_issue_for_persist") =>
          LET issue == calls'[Len(calls')][3]
              backed == ci.issue # <<>>
          IN  /\ DOMAIN issue = BaseFields
              /\ issue.kind = ci.issue_type
              /\ issue.repository_id = ci.repository_id
              /\ issue.title = IF backed THEN ci.issue[1].title ELSE ""
              /\ issue.issue_number = IF backed THEN ci.issue[1].number ELSE 0
              /\ issue.state = IF backed THEN ci.issue[1].state ELSE ""
              /\ issue.created_at = IF backed THEN Str(ci.issue[1].created_at) ELSE ""
              /\ issue.updated_at = IF backed THEN Str(ci.issue[1].updated_at) ELSE ""
              /\ issue.closed_at = IF backed THEN Str(ci.issue[1].closed_at) ELSE ""
              /\ issue.html_url = IF backed THEN ci.issue[1].html_url ELSE ""
              /\ issue.body = IF backed THEN ci.issue[1].body ELSE ""
              /\ issue.labels = IF backed THEN ci.issue[1].labels ELSE <<>>
              /\ issue.linked_to_project = ci.linked_to_project
              /\ issue.project_statuses = ci.project_issue_statuses
              /\ issue.errors = ci.errors
              /\ AuditState(ci') = AuditState(ci)
              /\ comment_requests' = comment_requests
              /\ timeline_requests' = timeline_requests
      ]_vars

\* a FeatureIssue record whose audit data had been fetched and that had been
\* linked to a board was converted twice
C27_Witness ==
    /\ pc = "issue"
    /\ Len(calls) = MaxCalls
    /\ calls[1][1] = "get_audit_data" /\ calls[2][1] = "update_with_project_data"
    /\ calls[3][1] = "convert_to_issue_for_persist"
    /\ calls[4][1] = "convert_to_issue_for_persist"
    /\ calls[4][3].kind = "FeatureIssue"
    /\ calls[4][3].linked_to_project /\ Len(calls[4][3].project_statuses) = 1
    /\ calls[4][3].labels = <<DOC_FEATURE_LABEL>>
    /\ ci.audit_data_fetched /\ ci.created_by = "alice" /\ ci.audit_events # <<>>
    /\ comment_requests = 1 /\ timeline_requests = 1

====
